---- MODULE Spec2Model ----
(***************************************************************************)
(* Session lifecycle of the QlikSense MCP server.                          *)
(*                                                                         *)
(* BrowserManager (src/browser_manager.py) owns a playwright driver, a     *)
(* browser, a browser context and a page, and offers start, restart,       *)
(* is_healthy, recover_from_error, execute_with_retry and cleanup.         *)
(* BrowserQlikClient (src/browser_qlik_client.py) owns the same four       *)
(* handles and offers authenticate, close, and get_apps / get_tasks /      *)
(* get_logs, which go through its request helper _make_api_request.       *)
(* QlikClient (src/qlik_client.py) talks to the server with requests: it   *)
(* holds session_id and offers the same operations through                 *)
(* _make_authenticated_request.  The tool functions of src/app.py validate *)
(* their arguments and construct a QlikClient.                             *)
(* Every method is modelled statement by statement: a caller's position is *)
(* a stack of labels, one label per statement that touches the object's    *)
(* fields or calls into playwright.  Playwright itself is the environment: *)
(* every launch / create / close call may succeed or raise, and a running  *)
(* browser may crash at any moment.                                        *)
(*                                                                         *)
(* Spec       one caller of a BrowserManager                               *)
(* SpecLive   the same, the caller's thread never stopping inside a method *)
(* SpecConc   two callers sharing a BrowserManager, one call each          *)
(* SpecClient one caller of a BrowserQlikClient                            *)
(* SpecClientLive  the same, the caller's thread never stopping inside a   *)
(*            method except where it waits for standard input              *)
(* SpecStartAuth  one caller starting and stopping a BrowserManager and   *)
(*            using a BrowserQlikClient                                    *)
(* SpecCookies  one caller starting and stopping a BrowserManager and      *)
(*            reading its cookies                                          *)
(* SpecApi    one caller of the requests of a BrowserQlikClient, or of a   *)
(*            QlikClient and the tool functions, the remote answering each *)
(*            request as it likes                                          *)
(***************************************************************************)
EXTENDS Integers, Sequences, FiniteSets, TLC

\* ---------------------------------------------------------------- bounds
\* number of playwright drivers / browsers the environment is able to launch
MaxLaunch == 2
\* largest max_retries argument given to execute_with_retry
MaxRetries == 2
\* largest max_retries argument when several callers share the manager
MaxRetriesConc == 1
\* largest max_retries the two clients are constructed with
MaxApiRetries == 3
\* longest string given as a session id or task id
MaxLen == 2

\* def __init__(self, ..., timeout: int = 30, max_retries: int = 3)
DefaultMaxRetries == 3

Threads == {1, 2}
None == 0

VARIABLES
    \* BrowserManager fields
    is_started, playwright, browser, context, page, last_error,
    \* BrowserQlikClient fields
    cl_playwright, cl_browser, cl_context, cl_page, authenticated,
    \* environment: launched and not yet closed drivers / browsers, browsers
    \* that stopped responding, and how many of each were launched so far
    livePw, liveBr, crashed, nPw, nBr,
    \* per thread: call stack (head = current statement), the local variables
    \* of execute_with_retry, and what the thread's last step did
    stack, loc, ev,
    \* "sequential": one caller, playwright calls may raise, browsers may crash
    \* "concurrent": several callers, one call each, playwright never fails
    \* "requests": one caller, who holds a QlikClient and calls the tool
    \*             functions instead of holding the browser objects
    scenario,
    \* QlikClient.session_id (None or the value of the X-Qlik-Session cookie)
    \* and the max_retries the two clients were constructed with
    session_id, max_retries

mgr  == <<is_started, playwright, browser, context, page, last_error>>
cli  == <<cl_playwright, cl_browser, cl_context, cl_page, authenticated>>
env  == <<livePw, liveBr, crashed, nPw, nBr>>
api  == <<session_id, max_retries>>
vars == <<is_started, playwright, browser, context, page, last_error,
          cl_playwright, cl_browser, cl_context, cl_page, authenticated,
          livePw, liveBr, crashed, nPw, nBr, stack, loc, ev, scenario,
          session_id, max_retries>>

\* ------------------------------------------------------------ call stack
\* loc[t]: attempt, max_retries and last_exception of execute_with_retry;
\* ready = how the current attempt found the session usable; hit = a browser
\* crashed while the caller's current call was running;
\* what the running execute_with_retry did so far: ops = invocations of the
\* operation, hrecs / xrecs = calls of recover_from_error after a failed health
\* check / in the except block, slept = seconds of time.sleep, failure and
\* failed_at = the exception that ended an attempt and that attempt's index,
\* msg_count and msg_cause = what the message of the final exception reports,
\* stopped = the number of browsers launched before the call when the caller's
\* previous call was cleanup() (-1 otherwise), healthy0 = the session was
\* started and healthy when the call was made, given = the attribute of the
\* manager whose value was passed to the operation;
\* of a call on a client or of a tool function: reqs = requests attempted,
\* outs = how those attempts ended, args = the strings the caller passed,
\* task_id = the local variable task_id, built = QlikClient constructions
\* attempted, after_close = the caller's previous call on the same client was
\* close(), nbr0 = the number of browsers launched before the call;
\* of cleanup() and close(): again = the caller's previous call was the same
\* method and ran to its end
\* ev[t]: k = "call" / "step" / "ret" / "exc" (what the last step of t was;
\* "past" once the environment moved on), val = the value returned or the
\* exception raised, rets = the methods that returned or raised in that step
NoLocals == [attempt |-> 0, max_retries |-> 0, last_exception |-> "none",
             ready |-> "none", hit |-> FALSE,
             ops |-> 0, hrecs |-> 0, xrecs |-> 0, slept |-> 0,
             failure |-> "none", failed_at |-> -1,
             msg_count |-> 0, msg_cause |-> "none", stopped |-> -1,
             healthy0 |-> FALSE,
             reqs |-> 0, outs |-> {}, args |-> << >>, task_id |-> << >>,
             built |-> 0, after_close |-> FALSE, nbr0 |-> 0,
             given |-> "none", again |-> FALSE]
StepEv   == [k |-> "step", val |-> "none", rets |-> {}, tried |-> {}]

Idle(t)  == stack[t] = << >>
At(t, l) == stack[t] # << >> /\ Head(stack[t]) = l

Goto(t, l) ==
    /\ stack' = [stack EXCEPT ![t] = <<l>> \o Tail(@)]
    /\ ev' = [ev EXCEPT ![t] = StepEv]

\* call `entry`, continue at `cont` when it returns
Call(t, entry, cont) ==
    /\ stack' = [stack EXCEPT ![t] = <<entry, cont>> \o Tail(@)]
    /\ ev' = [ev EXCEPT ![t] = [k |-> "call", val |-> entry, rets |-> {}, tried |-> {}]]

\* a `return f(...)` statement hands the callee's value straight on, and the
\* tail of start's except block returns False once cleanup() is back
RECURSIVE Unwind(_, _, _)
Unwind(stk, val, rets) ==
    IF stk = << >> THEN [stk |-> stk, val |-> val, rets |-> rets]
    ELSE IF Head(stk) = "restart.ret"
         THEN Unwind(Tail(stk), val, rets \cup {<<"restart", val>>})
    ELSE IF Head(stk) = "recover.ret"
         THEN Unwind(Tail(stk), val, rets \cup {<<"recover_from_error", val>>})
    ELSE IF Head(stk) = "start.fail"
         THEN Unwind(Tail(stk), "False", rets \cup {<<"start", "False">>})
    ELSE IF Head(stk) \in {"exit.ret", "cl.exit.ret"}
         THEN Unwind(Tail(stk), "None", rets \cup {<<"__exit__", "None">>})
    ELSE [stk |-> stk, val |-> val, rets |-> rets]

Return(t, fn, val) ==
    LET r == Unwind(Tail(stack[t]), val, {<<fn, val>>})
    IN  /\ stack' = [stack EXCEPT ![t] = r.stk]
        /\ ev' = [ev EXCEPT ![t] = [k |-> "ret", val |-> r.val, rets |-> r.rets,
                                    tried |-> IF fn \in {"cleanup", "close"}
                                             THEN @.tried ELSE {}]]

\* a return right after a logger.info(msg) that tells what was done, or why
\* nothing was done
ReturnLogged(t, fn, val, msg) ==
    LET r == Unwind(Tail(stack[t]), val, {<<fn, val>>, <<"log", msg>>})
    IN  /\ stack' = [stack EXCEPT ![t] = r.stk]
        /\ ev' = [ev EXCEPT ![t] = [k |-> "ret", val |-> r.val, rets |-> r.rets,
                                    tried |-> IF fn \in {"cleanup", "close"}
                                             THEN @.tried ELSE {}]]

\* the function a label belongs to
FnOf(l) ==
    CASE l \in {"start", "start.pw", "start.launch", "start.ctx", "start.page",
                "start.timeouts", "start.except", "start.fail"} -> "start"
      [] l \in {"cleanup", "cleanup.page.close", "cleanup.ctx",
                "cleanup.ctx.close", "cleanup.br", "cleanup.br.close",
                "cleanup.pw", "cleanup.pw.stop", "cleanup.flag",
                "cleanup.except"} -> "cleanup"
      [] l \in {"restart", "restart.start", "restart.ret"} -> "restart"
      [] l \in {"recover", "recover.page", "recover.page.hc", "recover.ctx",
                "recover.ctx.page", "recover.ctx.hc", "recover.restart",
                "recover.ret"} -> "recover_from_error"
      [] l \in {"ewr", "ewr.started", "ewr.started.ret", "ewr.health",
                "ewr.recover.ret", "ewr.op", "ewr.except", "ewr.sleep"}
             -> "execute_with_retry"
      [] l \in {"exit.ret", "cl.exit.ret"} -> "__exit__"
      [] l \in {"auth", "auth.sb.ret", "auth.goto", "auth.cookie", "auth.form",
                "auth.input", "auth.final", "auth.except"} -> "authenticate"
      [] l \in {"sb.pw", "sb.br", "sb.ctx", "sb.page"} -> "_start_browser"
      [] l \in {"close", "close.ctx", "close.br", "close.pw", "close.flag"}
             -> "close"
      [] l \in {"api", "api.loop", "api.fetch", "api.except", "api.sleep",
                "api.raise"} -> "_make_api_request"
      [] l \in {"bq.apps.ret", "bq.apps.except"} -> "get_apps"
      [] l \in {"bq.tasks.ret", "bq.tasks.except"} -> "get_tasks"
      [] l \in {"bq.logs", "bq.logs.ret", "bq.logs.except"} -> "get_logs"
      [] l = "qc.auth" -> "QlikClient.authenticate"
      [] l = "factory.ret" -> "create_qlik_client"
      [] l \in {"req", "req.loop", "req.send", "req.except", "req.sleep",
                "req.raise"} -> "_make_authenticated_request"
      [] l \in {"qc.apps.ret", "qc.apps.except"} -> "QlikClient.get_apps"
      [] l \in {"qc.tasks.ret", "qc.tasks.except"} -> "QlikClient.get_tasks"
      [] l \in {"qc.logs", "qc.logs.ret", "qc.logs.except"}
             -> "QlikClient.get_logs"
      [] l \in {"tool.apps", "tool.apps.new", "tool.apps.except"}
             -> "list_apps_with_session"
      [] l \in {"tool.tasks", "tool.tasks.new", "tool.tasks.except"}
             -> "list_tasks_with_session"
      [] l \in {"tool.logs", "tool.logs.new", "tool.logs.except"}
             -> "get_task_logs_with_session"
      [] OTHER -> "?"

\* the except clause (if any) that covers the statement at label l
Handler(l) ==
    CASE l \in {"start", "start.pw", "start.launch", "start.ctx", "start.page",
                "start.timeouts"} -> "start.except"
      [] l \in {"cleanup", "cleanup.page.close", "cleanup.ctx",
                "cleanup.ctx.close", "cleanup.br", "cleanup.br.close",
                "cleanup.pw", "cleanup.pw.stop", "cleanup.flag"}
             -> "cleanup.except"
      [] l \in {"recover.page", "recover.page.hc"} -> "recover.ctx"
      [] l \in {"recover.ctx", "recover.ctx.page", "recover.ctx.hc"}
             -> "recover.restart"
      [] l \in {"ewr.started", "ewr.started.ret", "ewr.health",
                "ewr.recover.ret", "ewr.op"} -> "ewr.except"
      [] l \in {"auth.sb.ret", "auth.goto", "auth.cookie", "auth.form",
                "auth.input", "auth.final"} -> "auth.except"
      [] l = "api.fetch" -> "api.except"
      [] l = "bq.apps.ret" -> "bq.apps.except"
      [] l = "bq.tasks.ret" -> "bq.tasks.except"
      [] l = "bq.logs.ret" -> "bq.logs.except"
      [] l = "req.send" -> "req.except"
      [] l = "qc.apps.ret" -> "qc.apps.except"
      [] l = "qc.tasks.ret" -> "qc.tasks.except"
      [] l = "qc.logs.ret" -> "qc.logs.except"
      [] l \in {"tool.apps", "tool.apps.new"} -> "tool.apps.except"
      [] l \in {"tool.tasks", "tool.tasks.new"} -> "tool.tasks.except"
      [] l \in {"tool.logs", "tool.logs.new"} -> "tool.logs.except"
      [] OTHER -> "none"

\* an exception travels up the stack to the innermost covering except clause
RECURSIVE Catch(_, _)
Catch(stk, rets) ==
    IF stk = << >> THEN [stk |-> stk, rets |-> rets]
    ELSE IF Handler(Head(stk)) # "none"
         THEN [stk |-> <<Handler(Head(stk))>> \o Tail(stk), rets |-> rets]
    ELSE Catch(Tail(stk), rets \cup {<<FnOf(Head(stk)), "raise">>})

Throw(t, kind) ==
    LET r == Catch(stack[t], {})
    IN  /\ stack' = [stack EXCEPT ![t] = r.stk]
        /\ ev' = [ev EXCEPT ![t] = [k |-> "exc", val |-> kind, rets |-> r.rets,
                                    tried |-> {}]]

\* ----------------------------------------------------------- environment
\* what a call into playwright may do: TRUE = it succeeds, FALSE = it raises
Outcomes == IF scenario = "sequential" THEN BOOLEAN ELSE {TRUE}

\* page.evaluate("() => document.title") answers
Responds(p) == p \in liveBr /\ p \notin crashed

Fields ==
    /\ is_started = FALSE
    /\ playwright = None /\ browser = None /\ context = None /\ page = None
    /\ last_error = FALSE
    /\ cl_playwright = None /\ cl_browser = None /\ cl_context = None
    /\ cl_page = None /\ authenticated = FALSE
    /\ session_id = None
    /\ livePw = {} /\ liveBr = {} /\ crashed = {}
    /\ nPw = 0 /\ nBr = 0
    /\ stack = [t \in Threads |-> << >>]
    /\ loc = [t \in Threads |-> NoLocals]
    /\ ev = [t \in Threads |-> [k |-> "idle", val |-> "none", rets |-> {},
                               tried |-> {}]]

Init ==
    Fields /\ scenario = "sequential" /\ max_retries = DefaultMaxRetries

InitConc ==
    Fields /\ scenario = "concurrent" /\ max_retries = DefaultMaxRetries

\* the clients constructed with any max_retries
InitApi ==
    /\ Fields
    /\ scenario \in {"sequential", "requests"}
    /\ max_retries \in 0..MaxApiRetries

\* a running browser stops responding
Crash ==
    /\ scenario = "sequential"
    /\ \E b \in liveBr \ crashed : crashed' = crashed \cup {b}
    /\ ev' = [t \in Threads |->
                IF ev[t].k \in {"ret", "exc"} THEN [ev[t] EXCEPT !.k = "past"]
                                              ELSE ev[t]]
    /\ loc' = [t \in Threads |->
                IF Idle(t) THEN loc[t] ELSE [loc[t] EXCEPT !.hit = TRUE]]
    /\ UNCHANGED <<mgr, cli, livePw, liveBr, nPw, nBr, stack, scenario, api>>

\* ------------------------------------------------ BrowserManager.cleanup
\* ev[t].tried carries the handles whose close / stop call the running
\* cleanup() has made so far, up to the step in which cleanup() returns
GotoTried(t, l, tr) ==
    /\ stack' = [stack EXCEPT ![t] = <<l>> \o Tail(@)]
    /\ ev' = [ev EXCEPT ![t] = [StepEv EXCEPT !.tried = tr]]

ThrowTried(t, kind, tr) ==
    LET r == Catch(stack[t], {})
    IN  /\ stack' = [stack EXCEPT ![t] = r.stk]
        /\ ev' = [ev EXCEPT ![t] = [k |-> "exc", val |-> kind, rets |-> r.rets,
                                    tried |-> tr]]

\* if self.page:
cleanup_IfPage(t) ==
    /\ At(t, "cleanup")
    /\ GotoTried(t, IF page = None THEN "cleanup.ctx" ELSE "cleanup.page.close", {})
    /\ UNCHANGED <<mgr, env, loc, cli, scenario, api>>

\* self.page = None is missing
cleanup_ClosePage_KeepsHandle(t) ==
    /\ At(t, "cleanup.page.close")
    /\ IF page = None
       THEN ThrowTried(t, "attribute", ev[t].tried) /\ UNCHANGED <<mgr, env>>
       ELSE \E ok \in Outcomes :
              IF ok
              THEN /\ GotoTried(t, "cleanup.ctx", ev[t].tried \cup {"page"})
                   /\ UNCHANGED <<mgr, env>>
              ELSE /\ ThrowTried(t, "close", ev[t].tried \cup {"page"})
                   /\ UNCHANGED <<mgr, env>>
    /\ UNCHANGED <<loc, cli, scenario, api>>

\* self.page.close(); self.page = None
cleanup_ClosePage(t) ==
    /\ At(t, "cleanup.page.close")
    /\ IF page = None
       THEN ThrowTried(t, "attribute", ev[t].tried) /\ UNCHANGED <<mgr, env>>
       ELSE \E ok \in Outcomes :
              IF ok
              THEN /\ page' = None
                   /\ GotoTried(t, "cleanup.ctx", ev[t].tried \cup {"page"})
                   /\ UNCHANGED <<is_started, playwright, browser, context,
                                  last_error, env>>
              ELSE /\ ThrowTried(t, "close", ev[t].tried \cup {"page"})
                   /\ UNCHANGED <<mgr, env>>
    /\ UNCHANGED <<loc, cli, scenario, api>>

\* if self.context:
cleanup_IfContext(t) ==
    /\ At(t, "cleanup.ctx")
    /\ GotoTried(t, IF context = None THEN "cleanup.br" ELSE "cleanup.ctx.close", ev[t].tried)
    /\ UNCHANGED <<mgr, env, loc, cli, scenario, api>>

\* self.context.close(); self.context = None
cleanup_CloseContext(t) ==
    /\ At(t, "cleanup.ctx.close")
    /\ IF context = None
       THEN ThrowTried(t, "attribute", ev[t].tried) /\ UNCHANGED <<mgr, env>>
       ELSE \E ok \in Outcomes :
              IF ok
              THEN /\ context' = None
                   /\ GotoTried(t, "cleanup.br", ev[t].tried \cup {"context"})
                   /\ UNCHANGED <<is_started, playwright, browser, page,
                                  last_error, env>>
              ELSE /\ ThrowTried(t, "close", ev[t].tried \cup {"context"})
                   /\ UNCHANGED <<mgr, env>>
    /\ UNCHANGED <<loc, cli, scenario, api>>

\* if self.browser:
cleanup_IfBrowser(t) ==
    /\ At(t, "cleanup.br")
    /\ GotoTried(t, IF browser = None THEN "cleanup.pw" ELSE "cleanup.br.close", ev[t].tried)
    /\ UNCHANGED <<mgr, env, loc, cli, scenario, api>>

\* self.browser.close(); self.browser = None
cleanup_CloseBrowser(t) ==
    /\ At(t, "cleanup.br.close")
    /\ IF browser = None
       THEN ThrowTried(t, "attribute", ev[t].tried) /\ UNCHANGED <<mgr, env>>
       ELSE \E ok \in Outcomes :
              IF ok
              THEN /\ browser' = None
                   /\ liveBr' = liveBr \ {browser}
                   /\ crashed' = crashed \ {browser}
                   /\ GotoTried(t, "cleanup.pw", ev[t].tried \cup {"browser"})
                   /\ UNCHANGED <<is_started, playwright, context, page,
                                  last_error, livePw, nPw, nBr>>
              ELSE /\ ThrowTried(t, "close", ev[t].tried \cup {"browser"})
                   /\ UNCHANGED <<mgr, env>>
    /\ UNCHANGED <<loc, cli, scenario, api>>

\* if self.playwright:
cleanup_IfPlaywright(t) ==
    /\ At(t, "cleanup.pw")
    /\ GotoTried(t, IF playwright = None THEN "cleanup.flag" ELSE "cleanup.pw.stop", ev[t].tried)
    /\ UNCHANGED <<mgr, env, loc, cli, scenario, api>>

\* self.playwright.stop(); self.playwright = None
cleanup_ClosePlaywright(t) ==
    /\ At(t, "cleanup.pw.stop")
    /\ IF playwright = None
       THEN ThrowTried(t, "attribute", ev[t].tried) /\ UNCHANGED <<mgr, env>>
       ELSE \E ok \in Outcomes :
              IF ok
              THEN /\ playwright' = None
                   /\ livePw' = livePw \ {playwright}
                   /\ GotoTried(t, "cleanup.flag", ev[t].tried \cup {"playwright"})
                   /\ UNCHANGED <<is_started, browser, context, page,
                                  last_error, liveBr, crashed, nPw, nBr>>
              ELSE /\ ThrowTried(t, "close", ev[t].tried \cup {"playwright"})
                   /\ UNCHANGED <<mgr, env>>
    /\ UNCHANGED <<loc, cli, scenario, api>>

\* self.is_started = False, and the method returns
cleanup_Flag(t) ==
    /\ At(t, "cleanup.flag")
    /\ is_started' = FALSE
    /\ ReturnLogged(t, "cleanup", "None", "Browser resources opgeruimd")
    /\ UNCHANGED <<playwright, browser, context, page, last_error, env, loc>>
    /\ UNCHANGED <<cli, scenario, api>>

\* except Exception as e: log a warning, and the method returns
cleanup_Except(t) ==
    /\ At(t, "cleanup.except")
    /\ Return(t, "cleanup", "None")
    /\ UNCHANGED <<mgr, env, loc, cli, scenario, api>>

\* -------------------------------------------------- BrowserManager.start
\* the is_started check is missing
start_IsStarted_NoCheck(t) ==
    /\ At(t, "start")
    /\ Goto(t, "start.pw")
    /\ UNCHANGED <<mgr, env, loc>>
    /\ UNCHANGED <<cli, scenario, api>>

\* if self.is_started: return True
start_IsStarted(t) ==
    /\ At(t, "start")
    /\ IF is_started
       THEN ReturnLogged(t, "start", "True", "Browser is al gestart")
       ELSE Goto(t, "start.pw")
    /\ UNCHANGED <<mgr, env, loc>>
    /\ UNCHANGED <<cli, scenario, api>>

\* self.playwright = sync_playwright().start()
start_Playwright(t) ==
    /\ At(t, "start.pw")
    /\ \E ok \in Outcomes :
         IF ok /\ nPw < MaxLaunch
         THEN /\ playwright' = nPw + 1
              /\ nPw' = nPw + 1
              /\ livePw' = livePw \cup {nPw + 1}
              /\ Goto(t, "start.launch")
              /\ UNCHANGED <<is_started, browser, context, page, last_error,
                             liveBr, crashed, nBr>>
         ELSE Throw(t, "launch") /\ UNCHANGED <<mgr, env>>
    /\ UNCHANGED loc
    /\ UNCHANGED <<cli, scenario, api>>

\* self.browser = self.playwright.chromium.launch(...)
start_Launch(t) ==
    /\ At(t, "start.launch")
    /\ \E ok \in Outcomes :
         IF ok /\ playwright \in livePw /\ nBr < MaxLaunch
         THEN /\ browser' = nBr + 1
              /\ nBr' = nBr + 1
              /\ liveBr' = liveBr \cup {nBr + 1}
              /\ Goto(t, "start.ctx")
              /\ UNCHANGED <<is_started, playwright, context, page, last_error,
                             livePw, crashed, nPw>>
         ELSE Throw(t, "launch") /\ UNCHANGED <<mgr, env>>
    /\ UNCHANGED loc
    /\ UNCHANGED <<cli, scenario, api>>

\* self.context = self.browser.new_context(**default_context_options)
start_NewContext(t) ==
    /\ At(t, "start.ctx")
    /\ \E ok \in Outcomes :
         IF ok /\ Responds(browser)
         THEN /\ context' = browser
              /\ Goto(t, "start.page")
              /\ UNCHANGED <<is_started, playwright, browser, page, last_error>>
         ELSE Throw(t, "launch") /\ UNCHANGED mgr
    /\ UNCHANGED <<env, loc>>
    /\ UNCHANGED <<cli, scenario, api>>

\* self.page = self.context.new_page()
start_NewPage(t) ==
    /\ At(t, "start.page")
    /\ \E ok \in Outcomes :
         IF ok /\ Responds(context)
         THEN /\ page' = context
              /\ Goto(t, "start.timeouts")
              /\ UNCHANGED <<is_started, playwright, browser, context, last_error>>
         ELSE Throw(t, "launch") /\ UNCHANGED mgr
    /\ UNCHANGED <<env, loc>>
    /\ UNCHANGED <<cli, scenario, api>>

\* self.page.set_default_timeout(..); self.page.set_default_navigation_timeout(..)
\* self.is_started = True; return True
start_Timeouts(t) ==
    /\ At(t, "start.timeouts")
    /\ \E ok \in Outcomes :
         IF ok /\ page # None
         THEN /\ is_started' = TRUE
              /\ Return(t, "start", "True")
              /\ UNCHANGED <<playwright, browser, context, page, last_error>>
         ELSE Throw(t, "launch") /\ UNCHANGED mgr
    /\ UNCHANGED <<env, loc>>
    /\ UNCHANGED <<cli, scenario, api>>

\* except Exception as e: self.last_error = e; self.cleanup(); return False
start_Except(t) ==
    /\ At(t, "start.except")
    /\ last_error' = TRUE
    /\ Call(t, "cleanup", "start.fail")
    /\ UNCHANGED <<is_started, playwright, browser, context, page, env, loc>>
    /\ UNCHANGED <<cli, scenario, api>>

\* ------------------------------------------------ BrowserManager.restart
\* self.cleanup()
restart_Cleanup(t) ==
    /\ At(t, "restart")
    /\ Call(t, "cleanup", "restart.start")
    /\ UNCHANGED <<mgr, env, loc>>
    /\ UNCHANGED <<cli, scenario, api>>

\* return self.start(context_options)
restart_Start(t) ==
    /\ At(t, "restart.start")
    /\ Call(t, "start", "restart.ret")
    /\ UNCHANGED <<mgr, env, loc>>
    /\ UNCHANGED <<cli, scenario, api>>

\* --------------------------------------------- BrowserManager.is_healthy
\* the probe is skipped: True whenever the manager is started and has a page
IsHealthy_NoProbe == is_started /\ page # None

\* the value is_healthy() returns in the current state
IsHealthy == is_started /\ page # None /\ Responds(page)

\* self.page.evaluate("() => document.title"), when is_healthy() gets to it
ProbeEv ==
    IF ~is_started \/ page = None THEN {}
    ELSE IF Responds(page) THEN {<<"page.evaluate", "ok">>}
    ELSE {<<"page.evaluate", "raise">>}

\* the probe was made and raised: except Exception as e: self.last_error = e
ProbeRaised == is_started /\ page # None /\ ~Responds(page)

BoolStr(b) == IF b THEN "True" ELSE "False"

\* a failed probe also drops the page
AfterHealthCheck_DropPage ==
    /\ last_error' = (last_error \/ ProbeRaised)
    /\ page' = IF ProbeRaised THEN None ELSE page
    /\ UNCHANGED <<is_started, playwright, browser, context>>

\* the fields after a call of is_healthy()
AfterHealthCheck ==
    /\ last_error' = (last_error \/ ProbeRaised)
    /\ UNCHANGED <<is_started, playwright, browser, context, page>>

\* ------------------------------------- BrowserManager.recover_from_error
\* the early return is missing
recover_HealthCheck_NoShortcut(t) ==
    /\ At(t, "recover")
    /\ AfterHealthCheck
    /\ Goto(t, "recover.page")
    /\ UNCHANGED <<env, loc>>
    /\ UNCHANGED <<cli, scenario, api>>

\* if self.is_healthy(): return True
recover_HealthCheck(t) ==
    /\ At(t, "recover")
    /\ AfterHealthCheck
    /\ IF IsHealthy
       THEN ReturnLogged(t, "recover_from_error", "True",
                         "Browser is al gezond, geen herstel nodig")
       ELSE Goto(t, "recover.page")
    /\ UNCHANGED <<env, loc>>
    /\ UNCHANGED <<cli, scenario, api>>

\* if self.context and not self.page: self.page = self.context.new_page()
recover_NewPage(t) ==
    /\ At(t, "recover.page")
    /\ IF context # None /\ page = None
       THEN \E ok \in Outcomes :
              IF ok /\ Responds(context)
              THEN /\ page' = context
                   /\ Goto(t, "recover.page.hc")
                   /\ UNCHANGED <<is_started, playwright, browser, context,
                                  last_error>>
              ELSE Throw(t, "launch") /\ UNCHANGED mgr
       ELSE Goto(t, "recover.ctx") /\ UNCHANGED mgr
    /\ UNCHANGED <<env, loc>>
    /\ UNCHANGED <<cli, scenario, api>>

\* the result of the health check is ignored
recover_PageHealth_FallThrough(t) ==
    /\ At(t, "recover.page.hc")
    /\ \E ok \in Outcomes :
         IF ok /\ page # None
         THEN AfterHealthCheck /\ Goto(t, "recover.ctx")
         ELSE Throw(t, "launch") /\ UNCHANGED mgr
    /\ UNCHANGED <<env, loc>>
    /\ UNCHANGED <<cli, scenario, api>>

\* self.page.set_default_timeout(..); ..; if self.is_healthy(): return True
recover_PageHealth(t) ==
    /\ At(t, "recover.page.hc")
    /\ \E ok \in Outcomes :
         IF ok /\ page # None
         THEN /\ AfterHealthCheck
              /\ IF IsHealthy
                 THEN ReturnLogged(t, "recover_from_error", "True",
                                   "Browser hersteld door nieuwe pagina")
                 ELSE Goto(t, "recover.ctx")
         ELSE Throw(t, "launch") /\ UNCHANGED mgr
    /\ UNCHANGED <<env, loc>>
    /\ UNCHANGED <<cli, scenario, api>>

\* if self.browser and not self.context:
\*     self.context = self.browser.new_context(**default_context_options)
recover_NewContext(t) ==
    /\ At(t, "recover.ctx")
    /\ IF browser # None /\ context = None
       THEN \E ok \in Outcomes :
              IF ok /\ Responds(browser)
              THEN /\ context' = browser
                   /\ Goto(t, "recover.ctx.page")
                   /\ UNCHANGED <<is_started, playwright, browser, page,
                                  last_error>>
              ELSE Throw(t, "launch") /\ UNCHANGED mgr
       ELSE Goto(t, "recover.restart") /\ UNCHANGED mgr
    /\ UNCHANGED <<env, loc>>
    /\ UNCHANGED <<cli, scenario, api>>

\* self.page = self.context.new_page()
recover_ContextPage(t) ==
    /\ At(t, "recover.ctx.page")
    /\ \E ok \in Outcomes :
         IF ok /\ Responds(context)
         THEN /\ page' = context
              /\ Goto(t, "recover.ctx.hc")
              /\ UNCHANGED <<is_started, playwright, browser, context, last_error>>
         ELSE Throw(t, "launch") /\ UNCHANGED mgr
    /\ UNCHANGED <<env, loc>>
    /\ UNCHANGED <<cli, scenario, api>>

\* self.page.set_default_timeout(..); ..; if self.is_healthy(): return True
recover_ContextHealth(t) ==
    /\ At(t, "recover.ctx.hc")
    /\ \E ok \in Outcomes :
         IF ok /\ page # None
         THEN /\ AfterHealthCheck
              /\ IF IsHealthy
                 THEN ReturnLogged(t, "recover_from_error", "True",
                                   "Browser hersteld door nieuwe context")
                 ELSE Goto(t, "recover.restart")
         ELSE Throw(t, "launch") /\ UNCHANGED mgr
    /\ UNCHANGED <<env, loc>>
    /\ UNCHANGED <<cli, scenario, api>>

\* return self.restart(context_options)
recover_Restart(t) ==
    /\ At(t, "recover.restart")
    /\ Call(t, "restart", "recover.ret")
    /\ UNCHANGED <<mgr, env, loc>>
    /\ UNCHANGED <<cli, scenario, api>>

\* ------------------------------------- BrowserManager.execute_with_retry
\* an exception raised inside the try block of the current attempt
Fail(t, kind) ==
    /\ Throw(t, kind)
    /\ loc' = [loc EXCEPT ![t].failure = kind, ![t].failed_at = loc[t].attempt,
                          ![t].ready = "none"]

\* range(max_retries) instead of range(max_retries + 1)
MoreAttempts_OneLess(t) == loc[t].attempt < loc[t].max_retries

\* for attempt in range(max_retries + 1): the loop has another attempt to make
MoreAttempts(t) == loc[t].attempt <= loc[t].max_retries

\* for attempt in range(max_retries + 1): ...
\* raise Exception(f"Operatie mislukt na {max_retries + 1} pogingen:
\*                   {str(last_exception)}") once the range is used up
ewr_Loop(t) ==
    /\ At(t, "ewr")
    /\ IF MoreAttempts(t)
       THEN Goto(t, "ewr.started") /\ loc' = [loc EXCEPT ![t].ready = "none"]
       ELSE /\ Throw(t, "final")
            /\ loc' = [loc EXCEPT ![t].msg_count = loc[t].max_retries + 1,
                                  ![t].msg_cause = loc[t].last_exception]
    /\ UNCHANGED <<mgr, env>>
    /\ UNCHANGED <<cli, scenario, api>>

\* if not self.is_started: if not self.start(context_options): raise ...
ewr_EnsureStarted(t) ==
    /\ At(t, "ewr.started")
    /\ IF is_started THEN Goto(t, "ewr.health")
                     ELSE Call(t, "start", "ewr.started.ret")
    /\ UNCHANGED <<mgr, env, loc>>
    /\ UNCHANGED <<cli, scenario, api>>

ewr_StartResult(t) ==
    /\ At(t, "ewr.started.ret")
    /\ IF ev[t].val = "True" THEN Goto(t, "ewr.health") /\ UNCHANGED loc
                             ELSE Fail(t, "nostart")
    /\ UNCHANGED <<mgr, env>>
    /\ UNCHANGED <<cli, scenario, api>>

\* if not self.is_healthy(): if not self.recover_from_error(..): raise ...
ewr_Health(t) ==
    /\ At(t, "ewr.health")
    /\ AfterHealthCheck
    /\ IF IsHealthy
       THEN Goto(t, "ewr.op") /\ loc' = [loc EXCEPT ![t].ready = "healthy"]
       ELSE /\ Call(t, "recover", "ewr.recover.ret")
            /\ loc' = [loc EXCEPT ![t].hrecs = @ + 1]
    /\ UNCHANGED env
    /\ UNCHANGED <<cli, scenario, api>>

ewr_RecoverResult(t) ==
    /\ At(t, "ewr.recover.ret")
    /\ IF ev[t].val = "True"
       THEN Goto(t, "ewr.op") /\ loc' = [loc EXCEPT ![t].ready = "recovered"]
       ELSE Fail(t, "norecover")
    /\ UNCHANGED <<mgr, env>>
    /\ UNCHANGED <<cli, scenario, api>>

\* what the caller's operation may do: return, raise, or reject its input
OpOutcomes == {"ok", "fail", "valerr"}

\* return operation(self.page)
ewr_Operation(t) ==
    /\ At(t, "ewr.op")
    /\ \E out \in OpOutcomes :
         IF out = "ok"
         THEN /\ Return(t, "execute_with_retry", "result")
              /\ loc' = [loc EXCEPT ![t].ready = "none", ![t].ops = @ + 1,
                                    ![t].given = "page"]
         ELSE /\ Throw(t, out)
              /\ loc' = [loc EXCEPT ![t].ready = "none", ![t].ops = @ + 1,
                                    ![t].given = "page",
                                    ![t].failure = out,
                                    ![t].failed_at = loc[t].attempt]
    /\ UNCHANGED <<mgr, env>>
    /\ UNCHANGED <<cli, scenario, api>>

\* the first exception is kept
Remember_First(old, e) == IF old = "none" THEN e ELSE old

\* last_exception = e
Remember(old, e) == e

\* if attempt <= max_retries
RetriesLeft_OneMore(t) == loc[t].attempt <= loc[t].max_retries

\* if attempt < max_retries
RetriesLeft(t) == loc[t].attempt < loc[t].max_retries

\* the except block goes straight to the sleep
ewr_Except_NoRecover(t) ==
    /\ At(t, "ewr.except")
    /\ IF RetriesLeft(t)
       THEN /\ Goto(t, "ewr.sleep")
            /\ loc' = [loc EXCEPT ![t].last_exception =
                                      Remember(@, ev[t].val)]
       ELSE /\ Goto(t, "ewr")
            /\ loc' = [loc EXCEPT ![t].last_exception =
                                      Remember(@, ev[t].val),
                                  ![t].attempt = @ + 1]
    /\ UNCHANGED <<mgr, env>>
    /\ UNCHANGED <<cli, scenario, api>>

\* the except block raises the exception again once the retries are used up
ewr_Except_Reraise(t) ==
    /\ At(t, "ewr.except")
    /\ IF RetriesLeft(t)
       THEN /\ Call(t, "recover", "ewr.sleep")
            /\ loc' = [loc EXCEPT ![t].last_exception =
                                      Remember(@, ev[t].val),
                                  ![t].xrecs = @ + 1]
       ELSE LET r == Catch(Tail(stack[t]), {<<"execute_with_retry", "raise">>})
            IN  /\ stack' = [stack EXCEPT ![t] = r.stk]
                /\ ev' = [ev EXCEPT ![t] = [k |-> "exc", val |-> ev[t].val,
                                            rets |-> r.rets, tried |-> {}]]
                /\ loc' = [loc EXCEPT ![t].last_exception =
                                          Remember(@, ev[t].val),
                                      ![t].attempt = @ + 1]
    /\ UNCHANGED <<mgr, env>>
    /\ UNCHANGED <<cli, scenario, api>>

\* except Exception as e: last_exception = e
\* if attempt < max_retries: self.recover_from_error(context_options); ...
ewr_Except(t) ==
    /\ At(t, "ewr.except")
    /\ IF RetriesLeft(t)
       THEN /\ Call(t, "recover", "ewr.sleep")
            /\ loc' = [loc EXCEPT ![t].last_exception =
                                      Remember(@, ev[t].val),
                                  ![t].xrecs = @ + 1]
       ELSE /\ Goto(t, "ewr")
            /\ loc' = [loc EXCEPT ![t].last_exception =
                                      Remember(@, ev[t].val),
                                  ![t].attempt = @ + 1]
    /\ UNCHANGED <<mgr, env>>
    /\ UNCHANGED <<cli, scenario, api>>

RECURSIVE Pow2(_)
Pow2(n) == IF n = 0 THEN 1 ELSE 2 * Pow2(n - 1)

\* 2 * attempt
Backoff_Linear(attempt) == 2 * attempt

\* 2 ** attempt
Backoff(attempt) == Pow2(attempt)

\* time.sleep(2 ** attempt), and the loop goes on to the next attempt
ewr_Sleep(t) ==
    /\ At(t, "ewr.sleep")
    /\ Goto(t, "ewr")
    /\ loc' = [loc EXCEPT ![t].attempt = @ + 1,
                          ![t].slept = @ + Backoff(loc[t].attempt)]
    /\ UNCHANGED <<mgr, env>>
    /\ UNCHANGED <<cli, scenario, api>>

\* ------------------------------------------------ calls from the outside
\* a caller that is not inside a method of the manager calls one; the
\* locals of the call are fresh
\* (with several callers: each makes one call, in the order of their numbers)
MayCall(t) ==
    /\ Idle(t)
    /\ scenario = "concurrent" =>
         ev[t].k = "idle" /\ \A u \in Threads : u < t => ev[u].k # "idle"

\* the methods of QlikClient and the tool functions, which construct one
RequestsCalls ==
    {"QlikClient.authenticate", "QlikClient.close", "QlikClient.get_apps",
     "QlikClient.get_tasks", "QlikClient.get_logs", "list_apps_with_session",
     "list_tasks_with_session", "get_task_logs_with_session",
     "create_qlik_client"}

\* the caller holds the object whose method fn is
Holds(fn) == (scenario = "requests") <=> (fn \in RequestsCalls)

\* a call whose locals start from the given values
EnterWith(t, fn, stk, locals) ==
    /\ MayCall(t)
    /\ Holds(fn)
    /\ loc' = [loc EXCEPT ![t] = locals]
    /\ stack' = [stack EXCEPT ![t] = stk]
    /\ ev' = [ev EXCEPT ![t] = [k |-> "call", val |-> fn, rets |-> {},
                                tried |-> {}]]

start(t) ==
    /\ EnterWith(t, "start", <<"start">>, NoLocals)
    /\ UNCHANGED <<mgr, env, cli, scenario, api>>

restart(t) ==
    /\ EnterWith(t, "restart", <<"restart">>, NoLocals)
    /\ UNCHANGED <<mgr, env, cli, scenario, api>>

\* the caller's previous call was a cleanup() / close() that reached its
\* last statement, the logger.info(msg)
Completed(t, fn, msg) ==
    /\ <<fn, "None">> \in ev[t].rets /\ ev[t].val = "None"
    /\ <<"log", msg>> \in ev[t].rets

cleanup(t) ==
    /\ EnterWith(t, "cleanup", <<"cleanup">>,
                 [NoLocals EXCEPT !.again =
                    Completed(t, "cleanup", "Browser resources opgeruimd")])
    /\ UNCHANGED <<mgr, env, cli, scenario, api>>

recover_from_error(t) ==
    /\ EnterWith(t, "recover_from_error", <<"recover">>, NoLocals)
    /\ UNCHANGED <<mgr, env, cli, scenario, api>>

\* def __exit__(self, exc_type, exc_val, exc_tb): self.cleanup()
exit(t) ==
    /\ EnterWith(t, "__exit__", <<"cleanup", "exit.ret">>, NoLocals)
    /\ UNCHANGED <<mgr, env, cli, scenario, api>>

is_healthy(t) ==
    /\ MayCall(t)
    /\ AfterHealthCheck
    /\ ev' = [ev EXCEPT ![t] = [k |-> "ret", val |-> BoolStr(IsHealthy),
                                rets |-> {<<"is_healthy", BoolStr(IsHealthy)>>}
                                           \cup ProbeEv,
                                tried |-> {}]]
    /\ loc' = [loc EXCEPT ![t] = NoLocals]
    /\ UNCHANGED <<env, stack, cli, scenario, api>>

\* the caller's previous call was cleanup() (or the __exit__ that calls it)
AfterStop(t) == <<"cleanup", "None">> \in ev[t].rets /\ ev[t].val = "None"

\* the max_retries arguments the callers choose from
RetryBound == IF scenario = "sequential" THEN MaxRetries ELSE MaxRetriesConc

\* def execute_with_retry(self, operation, max_retries: int = 3, ...):
\*     last_exception = None
execute_with_retry(t) ==
    /\ MayCall(t)
    /\ stack' = [stack EXCEPT ![t] = <<"ewr">>]
    /\ ev' = [ev EXCEPT ![t] = [k |-> "call", val |-> "execute_with_retry",
                                rets |-> {}, tried |-> {}]]
    /\ \E m \in 0..RetryBound :
         loc' = [loc EXCEPT ![t] =
                   [NoLocals EXCEPT !.max_retries = m,
                                    !.stopped = IF AfterStop(t) THEN nBr ELSE -1,
                                    !.healthy0 = IsHealthy]]
    /\ UNCHANGED <<mgr, env, cli, scenario, api>>

\* ------------------------------------- BrowserQlikClient._start_browser
\* if self.playwright is None: self.playwright = sync_playwright().start()
sb_Playwright(t) ==
    /\ At(t, "sb.pw")
    /\ IF cl_playwright # None
       THEN Goto(t, "sb.br") /\ UNCHANGED <<cli, env>>
       ELSE \E ok \in Outcomes :
              IF ok /\ nPw < MaxLaunch
              THEN /\ cl_playwright' = nPw + 1
                   /\ nPw' = nPw + 1
                   /\ livePw' = livePw \cup {nPw + 1}
                   /\ Goto(t, "sb.br")
                   /\ UNCHANGED <<cl_browser, cl_context, cl_page, authenticated,
                                  liveBr, crashed, nBr>>
              ELSE Throw(t, "launch") /\ UNCHANGED <<cli, env>>
    /\ UNCHANGED <<mgr, loc, scenario, api>>

\* if self.browser is None: self.browser = self.playwright.chromium.launch(..)
sb_Browser(t) ==
    /\ At(t, "sb.br")
    /\ IF cl_browser # None
       THEN Goto(t, "sb.ctx") /\ UNCHANGED <<cli, env>>
       ELSE \E ok \in Outcomes :
              IF ok /\ cl_playwright \in livePw /\ nBr < MaxLaunch
              THEN /\ cl_browser' = nBr + 1
                   /\ nBr' = nBr + 1
                   /\ liveBr' = liveBr \cup {nBr + 1}
                   /\ Goto(t, "sb.ctx")
                   /\ UNCHANGED <<cl_playwright, cl_context, cl_page,
                                  authenticated, livePw, crashed, nPw>>
              ELSE Throw(t, "launch") /\ UNCHANGED <<cli, env>>
    /\ UNCHANGED <<mgr, loc, scenario, api>>

\* if self.context is None: self.context = self.browser.new_context(..)
sb_Context(t) ==
    /\ At(t, "sb.ctx")
    /\ IF cl_context # None
       THEN Goto(t, "sb.page") /\ UNCHANGED cli
       ELSE \E ok \in Outcomes :
              IF ok /\ Responds(cl_browser)
              THEN /\ cl_context' = cl_browser
                   /\ Goto(t, "sb.page")
                   /\ UNCHANGED <<cl_playwright, cl_browser, cl_page,
                                  authenticated>>
              ELSE Throw(t, "launch") /\ UNCHANGED cli
    /\ UNCHANGED <<mgr, env, loc, scenario, api>>

\* if self.page is None: self.page = self.context.new_page()
sb_Page(t) ==
    /\ At(t, "sb.page")
    /\ IF cl_page # None
       THEN Return(t, "_start_browser", "None") /\ UNCHANGED cli
       ELSE \E ok \in Outcomes :
              IF ok /\ Responds(cl_context)
              THEN /\ cl_page' = cl_context
                   /\ Return(t, "_start_browser", "None")
                   /\ UNCHANGED <<cl_playwright, cl_browser, cl_context,
                                  authenticated>>
              ELSE Throw(t, "launch") /\ UNCHANGED cli
    /\ UNCHANGED <<mgr, env, loc, scenario, api>>

\* --------------------------------------- BrowserQlikClient.authenticate
\* if self.authenticated: return True;  try: self._start_browser()
auth_IsAuthenticated(t) ==
    /\ At(t, "auth")
    /\ IF authenticated
       THEN ReturnLogged(t, "authenticate", "True",
                         "Al geauthenticeerd, authenticatie overgeslagen")
       ELSE Call(t, "sb.pw", "auth.sb.ret")
    /\ UNCHANGED <<mgr, cli, env, loc, scenario, api>>

auth_BrowserStarted(t) ==
    /\ At(t, "auth.sb.ret")
    /\ Goto(t, "auth.goto")
    /\ UNCHANGED <<mgr, cli, env, loc, scenario, api>>

\* response = self.page.goto(hub_url, ...)
\* if response and response.status >= 400: raise QlikConnectionError(..)
auth_Goto(t) ==
    /\ At(t, "auth.goto")
    /\ \E r \in {"loaded", "http_error", "raised"} :
         CASE r = "loaded" /\ Responds(cl_page) -> Goto(t, "auth.cookie")
           [] r = "http_error" /\ Responds(cl_page)
                -> Throw(t, "QlikConnectionError")
           [] OTHER -> Throw(t, "navigation")
    /\ loc' = [loc EXCEPT ![t].reqs = @ + 1]
    /\ UNCHANGED <<mgr, cli, env, scenario, api>>

\* cookies = self.context.cookies(); look for 'X-Qlik-Session'
\* if session_cookie: self.authenticated = True; return True
auth_Cookie(t) ==
    /\ At(t, "auth.cookie")
    /\ \E found \in BOOLEAN :
         IF ~Responds(cl_context)
         THEN Throw(t, "navigation") /\ UNCHANGED cli
         ELSE IF found
         THEN /\ authenticated' = TRUE
              /\ Return(t, "authenticate", "True")
              /\ UNCHANGED <<cl_playwright, cl_browser, cl_context, cl_page>>
         ELSE Goto(t, "auth.form") /\ UNCHANGED cli
    /\ UNCHANGED <<mgr, env, loc, scenario, api>>

\* the automatic login: find the form fields, fill, click, wait, and look for
\* the cookie again; anything raised in there is logged and dropped
auth_LoginForm(t) ==
    /\ At(t, "auth.form")
    /\ \E found \in BOOLEAN :
         IF found /\ Responds(cl_context)
         THEN /\ authenticated' = TRUE
              /\ Return(t, "authenticate", "True")
              /\ UNCHANGED <<cl_playwright, cl_browser, cl_context, cl_page>>
         ELSE Goto(t, "auth.input") /\ UNCHANGED cli
    /\ UNCHANGED <<mgr, env, loc, scenario, api>>

\* print("Log in handmatig ..."); input()
\* the step is taken when a line (or end of file) arrives on standard input
auth_Input(t) ==
    /\ At(t, "auth.input")
    /\ \E line \in BOOLEAN :
         IF line THEN Goto(t, "auth.final") ELSE Throw(t, "eof")
    /\ UNCHANGED <<mgr, cli, env, loc, scenario, api>>

\* look for the cookie once more; without it:
\* raise QlikAuthenticationError("Geen sessie cookie gevonden na login poging")
auth_Final(t) ==
    /\ At(t, "auth.final")
    /\ \E found \in BOOLEAN :
         IF ~Responds(cl_context)
         THEN Throw(t, "navigation") /\ UNCHANGED cli
         ELSE IF found
         THEN /\ authenticated' = TRUE
              /\ Return(t, "authenticate", "True")
              /\ UNCHANGED <<cl_playwright, cl_browser, cl_context, cl_page>>
         ELSE Throw(t, "QlikAuthenticationError") /\ UNCHANGED cli
    /\ UNCHANGED <<mgr, env, loc, scenario, api>>

\* except Exception as e: the two Qlik errors are raised again as they are,
\* anything else as QlikConnectionError
Typed(kind) ==
    IF kind \in {"QlikAuthenticationError", "QlikConnectionError"}
    THEN kind ELSE "QlikConnectionError"

auth_Except(t) ==
    /\ At(t, "auth.except")
    /\ Throw(t, Typed(ev[t].val))
    /\ UNCHANGED <<mgr, cli, env, loc, scenario, api>>

\* ---------------------------------------------- BrowserQlikClient.close
\* if self.page: self.page.close(); self.page = None
close_Page(t) ==
    /\ At(t, "close")
    /\ IF cl_page = None
       THEN GotoTried(t, "close.ctx", {}) /\ UNCHANGED cli
       ELSE \E ok \in Outcomes :
              IF ok
              THEN /\ cl_page' = None
                   /\ GotoTried(t, "close.ctx", {"page"})
                   /\ UNCHANGED <<cl_playwright, cl_browser, cl_context,
                                  authenticated>>
              ELSE ThrowTried(t, "close", {"page"}) /\ UNCHANGED cli
    /\ UNCHANGED <<mgr, env, loc, scenario, api>>

\* if self.context: self.context.close(); self.context = None
close_Context(t) ==
    /\ At(t, "close.ctx")
    /\ IF cl_context = None
       THEN GotoTried(t, "close.br", ev[t].tried) /\ UNCHANGED cli
       ELSE \E ok \in Outcomes :
              IF ok
              THEN /\ cl_context' = None
                   /\ GotoTried(t, "close.br", ev[t].tried \cup {"context"})
                   /\ UNCHANGED <<cl_playwright, cl_browser, cl_page,
                                  authenticated>>
              ELSE /\ ThrowTried(t, "close", ev[t].tried \cup {"context"})
                   /\ UNCHANGED cli
    /\ UNCHANGED <<mgr, env, loc, scenario, api>>

\* if self.browser: self.browser.close(); self.browser = None
close_Browser(t) ==
    /\ At(t, "close.br")
    /\ IF cl_browser = None
       THEN GotoTried(t, "close.pw", ev[t].tried) /\ UNCHANGED <<cli, env>>
       ELSE \E ok \in Outcomes :
              IF ok
              THEN /\ cl_browser' = None
                   /\ liveBr' = liveBr \ {cl_browser}
                   /\ crashed' = crashed \ {cl_browser}
                   /\ GotoTried(t, "close.pw", ev[t].tried \cup {"browser"})
                   /\ UNCHANGED <<cl_playwright, cl_context, cl_page,
                                  authenticated, livePw, nPw, nBr>>
              ELSE /\ ThrowTried(t, "close", ev[t].tried \cup {"browser"})
                   /\ UNCHANGED <<cli, env>>
    /\ UNCHANGED <<mgr, loc, scenario, api>>

\* if self.playwright: self.playwright.stop(); self.playwright = None
close_Playwright(t) ==
    /\ At(t, "close.pw")
    /\ IF cl_playwright = None
       THEN GotoTried(t, "close.flag", ev[t].tried) /\ UNCHANGED <<cli, env>>
       ELSE \E ok \in Outcomes :
              IF ok
              THEN /\ cl_playwright' = None
                   /\ livePw' = livePw \ {cl_playwright}
                   /\ GotoTried(t, "close.flag", ev[t].tried \cup {"playwright"})
                   /\ UNCHANGED <<cl_browser, cl_context, cl_page,
                                  authenticated, liveBr, crashed, nPw, nBr>>
              ELSE /\ ThrowTried(t, "close", ev[t].tried \cup {"playwright"})
                   /\ UNCHANGED <<cli, env>>
    /\ UNCHANGED <<mgr, loc, scenario, api>>

\* self.authenticated = False, and the method returns
close_Flag(t) ==
    /\ At(t, "close.flag")
    /\ authenticated' = FALSE
    /\ ReturnLogged(t, "close", "None", "BrowserQlikClient gesloten")
    /\ UNCHANGED <<cl_playwright, cl_browser, cl_context, cl_page>>
    /\ UNCHANGED <<mgr, env, loc, scenario, api>>

\* --------------------------------------- calls on the client from outside
authenticate(t) ==
    /\ EnterWith(t, "authenticate", <<"auth">>,
                 [NoLocals EXCEPT !.nbr0 = nBr])
    /\ UNCHANGED <<mgr, cli, env, scenario, api>>

close(t) ==
    /\ EnterWith(t, "close", <<"close">>,
                 [NoLocals EXCEPT !.again =
                    Completed(t, "close", "BrowserQlikClient gesloten")])
    /\ UNCHANGED <<mgr, cli, env, scenario, api>>

\* def __exit__(self, exc_type, exc_val, exc_tb): self.close()
client_exit(t) ==
    /\ EnterWith(t, "__exit__", <<"close", "cl.exit.ret">>, NoLocals)
    /\ UNCHANGED <<mgr, cli, env, scenario, api>>

\* ------------------------------------------- BrowserManager.get_cookies
\* if self.context: return self.context.cookies()
\* return []
\* (what the call may give: a list with or without the X-Qlik-Session cookie,
\* the empty list, or the exception of context.cookies())
Cookies ==
    IF context = None THEN {"[]"}
    ELSE IF Responds(context)
         THEN {"[X-Qlik-Session]", "[other]"} \cup
              (IF FALSE \in Outcomes THEN {"raise"} ELSE {})
         ELSE {"raise"}

CookieEv(fn, c, val) ==
    IF c = "raise"
    THEN [k |-> "exc", val |-> "cookies",
          rets |-> {<<"get_cookies", "raise">>, <<fn, "raise">>},
          tried |-> {}]
    ELSE [k |-> "ret", val |-> val,
          rets |-> {<<"get_cookies", c>>, <<fn, val>>}, tried |-> {}]

get_cookies(t) ==
    /\ MayCall(t)
    /\ \E c \in Cookies :
         ev' = [ev EXCEPT ![t] = CookieEv("get_cookies", c, c)]
    /\ loc' = [loc EXCEPT ![t] = NoLocals]
    /\ UNCHANGED <<mgr, env, stack, cli, scenario, api>>

\* cookies = self.get_cookies()
\* for cookie in cookies: if cookie['name'] == cookie_name: return cookie['value']
\* return None
get_session_cookie(t) ==
    /\ MayCall(t)
    /\ \E c \in Cookies :
         ev' = [ev EXCEPT ![t] =
                  CookieEv("get_session_cookie", c,
                           IF c = "[X-Qlik-Session]" THEN "value" ELSE "None")]
    /\ loc' = [loc EXCEPT ![t] = NoLocals]
    /\ UNCHANGED <<mgr, env, stack, cli, scenario, api>>

\* ------------------------------------------------------------- strings
\* a session id or task id is a string of blanks and other characters
Strings == UNION {[1..n -> {" ", "x"}] : n \in 0..MaxLen}

RECURSIVE lstrip(_)
lstrip(s) == IF s # << >> /\ Head(s) = " " THEN lstrip(Tail(s)) ELSE s

RECURSIVE rstrip(_)
rstrip(s) ==
    IF s # << >> /\ s[Len(s)] = " " THEN rstrip(SubSeq(s, 1, Len(s) - 1))
    ELSE s

\* s.strip()
strip(s) == rstrip(lstrip(s))

\* only the empty string counts as missing
Blank_NoStrip(s) == s = << >>

\* if not s or not s.strip()
Blank(s) == s = << >> \/ strip(s) = << >>

\* --------------------------------------------- calls on the two clients
\* the caller's previous call was the close() of the same client
AfterClose(t, fn) == \E r \in ev[t].rets : r[1] = fn

\* how the remote, or the way to it, ends one request: an answer with status
\* 200, an answer with an error status, or no answer at all
Answers == {"200", "HTTP 401", "HTTP 403", "HTTP 404", "HTTP 500", "down"}

\* ------------------------------- BrowserQlikClient._make_api_request
\* if not self.authenticated: raise QlikAuthenticationError(..)
\* if not self.page: raise QlikConnectionError(..)
api_Guard(t) ==
    /\ At(t, "api")
    /\ IF ~authenticated THEN Throw(t, "QlikAuthenticationError")
       ELSE IF cl_page = None THEN Throw(t, "QlikConnectionError")
       ELSE Goto(t, "api.loop")
    /\ UNCHANGED <<mgr, cli, env, loc, scenario, api>>

\* for attempt in range(self.max_retries):
api_Loop(t) ==
    /\ At(t, "api.loop")
    /\ IF loc[t].attempt < max_retries
       THEN Goto(t, "api.fetch") ELSE Goto(t, "api.raise")
    /\ UNCHANGED <<mgr, cli, env, loc, scenario, api>>

\* result = self.page.evaluate(fetch_script); ...; return result
\* (the script throws Error(`HTTP ${response.status}: ..`) unless response.ok)
api_Fetch(t) ==
    /\ At(t, "api.fetch")
    /\ \E a \in (IF Responds(cl_page) THEN Answers ELSE {"down"}) :
         /\ loc' = [loc EXCEPT ![t].reqs = @ + 1, ![t].outs = @ \cup {a}]
         /\ IF a = "200" THEN Return(t, "_make_api_request", "data")
                         ELSE Throw(t, a)
    /\ UNCHANGED <<mgr, cli, env, scenario, api>>

\* the sleep is taken after every failed attempt
api_BackoffDue_Always(t) == TRUE

\* if attempt < self.max_retries - 1:
api_BackoffDue(t) == loc[t].attempt < max_retries - 1

\* except Exception as e: last_exception = e
api_Except(t) ==
    /\ At(t, "api.except")
    /\ IF api_BackoffDue(t)
       THEN /\ Goto(t, "api.sleep")
            /\ loc' = [loc EXCEPT ![t].last_exception = ev[t].val]
       ELSE /\ Goto(t, "api.loop")
            /\ loc' = [loc EXCEPT ![t].last_exception = ev[t].val,
                                  ![t].attempt = @ + 1]
    /\ UNCHANGED <<mgr, cli, env, scenario, api>>

\* wait_time = 2 ** attempt; time.sleep(wait_time)
api_Sleep(t) ==
    /\ At(t, "api.sleep")
    /\ Goto(t, "api.loop")
    /\ loc' = [loc EXCEPT ![t].slept = @ + Pow2(loc[t].attempt),
                          ![t].attempt = @ + 1]
    /\ UNCHANGED <<mgr, cli, env, scenario, api>>

\* 'HTTP 401' in error_msg or 'HTTP 403' in error_msg
AuthFailure(msg) == msg \in {"HTTP 401", "HTTP 403"}

\* error_msg = str(last_exception)
\* if ..: raise QlikAuthenticationError(f"Authenticatie fout voor ..")
\* else: raise QlikConnectionError(f".. na {self.max_retries} pogingen: ..")
api_Raise(t) ==
    /\ At(t, "api.raise")
    /\ IF AuthFailure(loc[t].last_exception)
       THEN /\ Throw(t, "QlikAuthenticationError")
            /\ loc' = [loc EXCEPT ![t].msg_cause = loc[t].last_exception]
       ELSE /\ Throw(t, "QlikConnectionError")
            /\ loc' = [loc EXCEPT ![t].msg_cause = loc[t].last_exception,
                                  ![t].msg_count = max_retries]
    /\ UNCHANGED <<mgr, cli, env, scenario, api>>

\* --------------------- BrowserQlikClient.get_apps, get_tasks, get_logs
\* if not task_id or not task_id.strip(): raise ValueError(..)
\* task_id = task_id.strip(); try: .. self._make_api_request(endpoint)
bq_logs_Validate(t) ==
    /\ At(t, "bq.logs")
    /\ IF Blank(loc[t].task_id)
       THEN Throw(t, "ValueError") /\ UNCHANGED loc
       ELSE /\ Call(t, "api", "bq.logs.ret")
            /\ loc' = [loc EXCEPT ![t].task_id = strip(@)]
    /\ UNCHANGED <<mgr, cli, env, scenario, api>>

\* the answer of the helper is formatted and returned
bq_Result(t) ==
    /\ \E l \in {"bq.apps.ret", "bq.tasks.ret", "bq.logs.ret"} :
         At(t, l) /\ Return(t, FnOf(l), "list")
    /\ UNCHANGED <<mgr, cli, env, loc, scenario, api>>

\* except ValueError: raise                                  (get_logs only)
\* except Exception as e:
\*     if isinstance(e, (QlikAuthenticationError, QlikConnectionError)): raise
\*     else: raise QlikConnectionError(..)
bq_Except(t) ==
    /\ \E l \in {"bq.apps.except", "bq.tasks.except", "bq.logs.except"} :
         /\ At(t, l)
         /\ Throw(t, IF l = "bq.logs.except" /\ ev[t].val = "ValueError"
                     THEN "ValueError" ELSE Typed(ev[t].val))
    /\ UNCHANGED <<mgr, cli, env, loc, scenario, api>>

get_apps(t) ==
    /\ EnterWith(t, "get_apps", <<"api", "bq.apps.ret">>,
                 [NoLocals EXCEPT !.after_close = AfterClose(t, "close")])
    /\ UNCHANGED <<mgr, cli, env, scenario, api>>

get_tasks(t) ==
    /\ EnterWith(t, "get_tasks", <<"api", "bq.tasks.ret">>,
                 [NoLocals EXCEPT !.after_close = AfterClose(t, "close")])
    /\ UNCHANGED <<mgr, cli, env, scenario, api>>

get_logs(t) ==
    /\ \E id \in Strings :
         EnterWith(t, "get_logs", <<"bq.logs">>,
                   [NoLocals EXCEPT !.after_close = AfterClose(t, "close"),
                                    !.args = <<id>>, !.task_id = id])
    /\ UNCHANGED <<mgr, cli, env, scenario, api>>

\* -------------------------------------------- QlikClient.authenticate
qc_authenticate(t) ==
    /\ EnterWith(t, "QlikClient.authenticate", <<"qc.auth">>, NoLocals)
    /\ UNCHANGED <<mgr, cli, env, scenario, api>>

\* response = self.session.get(hub_url, ..)
\* 200 with the X-Qlik-Session cookie: self.session_id = ..; return True
\* 200 without it: return False;  401, 403: raise QlikAuthenticationError
\* any other status, Timeout, ConnectionError: raise QlikConnectionError
qc_auth_Request(t) ==
    /\ At(t, "qc.auth")
    /\ \E a \in Answers, cookie \in BOOLEAN :
         /\ loc' = [loc EXCEPT ![t].reqs = @ + 1, ![t].outs = @ \cup {a}]
         /\ CASE a = "200" /\ cookie ->
                   /\ session_id' = 1
                   /\ Return(t, "QlikClient.authenticate", "True")
              [] a = "200" /\ ~cookie ->
                   /\ UNCHANGED session_id
                   /\ Return(t, "QlikClient.authenticate", "False")
              [] a \in {"HTTP 401", "HTTP 403"} ->
                   /\ UNCHANGED session_id
                   /\ Throw(t, "QlikAuthenticationError")
              [] OTHER ->
                   /\ UNCHANGED session_id
                   /\ Throw(t, "QlikConnectionError")
    /\ UNCHANGED <<mgr, cli, env, scenario, max_retries>>

\* ------------------------------------------------- create_qlik_client
\* client = QlikClient(**kwargs); client.authenticate()
\* the caller holds the new client from here on
create_qlik_client(t) ==
    /\ EnterWith(t, "create_qlik_client", <<"qc.auth", "factory.ret">>,
                 NoLocals)
    /\ session_id' = None
    /\ UNCHANGED <<mgr, cli, env, scenario, max_retries>>

\* return client      (whatever client.authenticate() returned)
factory_Return(t) ==
    /\ At(t, "factory.ret")
    /\ Return(t, "create_qlik_client", "client")
    /\ UNCHANGED <<mgr, cli, env, loc, scenario, api>>

\* if self.session: self.session.close(); self.session_id = None
qc_close(t) ==
    /\ MayCall(t)
    /\ Holds("QlikClient.close")
    /\ session_id' = None
    /\ ev' = [ev EXCEPT ![t] = [k |-> "ret", val |-> "None",
                                rets |-> {<<"QlikClient.close", "None">>},
                                tried |-> {}]]
    /\ loc' = [loc EXCEPT ![t] = NoLocals]
    /\ UNCHANGED <<mgr, cli, env, stack, scenario, max_retries>>

\* ---------------------------- QlikClient._make_authenticated_request
\* if not self.session_id: raise QlikAuthenticationError(..)
req_Guard(t) ==
    /\ At(t, "req")
    /\ IF session_id = None THEN Throw(t, "QlikAuthenticationError")
       ELSE Goto(t, "req.loop")
    /\ UNCHANGED <<mgr, cli, env, loc, scenario, api>>

\* for attempt in range(self.max_retries):
req_Loop(t) ==
    /\ At(t, "req.loop")
    /\ IF loc[t].attempt < max_retries
       THEN Goto(t, "req.send") ELSE Goto(t, "req.raise")
    /\ UNCHANGED <<mgr, cli, env, loc, scenario, api>>

\* response = self.session.request(method, url, **kwargs)
\* response.raise_for_status(); return response
req_Send(t) ==
    /\ At(t, "req.send")
    /\ \E a \in Answers :
         /\ loc' = [loc EXCEPT ![t].reqs = @ + 1, ![t].outs = @ \cup {a}]
         /\ IF a = "200"
            THEN Return(t, "_make_authenticated_request", "response")
            ELSE Throw(t, a)
    /\ UNCHANGED <<mgr, cli, env, scenario, api>>

\* if attempt < self.max_retries - 1:
req_BackoffDue(t) == loc[t].attempt < max_retries - 1

\* except requests.exceptions.RequestException as e: last_exception = e
req_Except(t) ==
    /\ At(t, "req.except")
    /\ IF req_BackoffDue(t)
       THEN /\ Goto(t, "req.sleep")
            /\ loc' = [loc EXCEPT ![t].last_exception = ev[t].val]
       ELSE /\ Goto(t, "req.loop")
            /\ loc' = [loc EXCEPT ![t].last_exception = ev[t].val,
                                  ![t].attempt = @ + 1]
    /\ UNCHANGED <<mgr, cli, env, scenario, api>>

\* wait_time = 2 ** attempt; time.sleep(wait_time)
req_Sleep(t) ==
    /\ At(t, "req.sleep")
    /\ Goto(t, "req.loop")
    /\ loc' = [loc EXCEPT ![t].slept = @ + Pow2(loc[t].attempt),
                          ![t].attempt = @ + 1]
    /\ UNCHANGED <<mgr, cli, env, scenario, api>>

\* raise QlikConnectionError(f"Request fout voor {endpoint} na
\*     {self.max_retries} pogingen: {str(last_exception)}")
req_Raise(t) ==
    /\ At(t, "req.raise")
    /\ Throw(t, "QlikConnectionError")
    /\ loc' = [loc EXCEPT ![t].msg_cause = loc[t].last_exception,
                          ![t].msg_count = max_retries]
    /\ UNCHANGED <<mgr, cli, env, scenario, api>>

\* ---------------------------- QlikClient.get_apps, get_tasks, get_logs
\* if not task_id or not task_id.strip(): raise ValueError(..)
\* task_id = task_id.strip(); try: .. self._make_authenticated_request(..)
qc_logs_Validate(t) ==
    /\ At(t, "qc.logs")
    /\ IF Blank(loc[t].task_id)
       THEN Throw(t, "ValueError") /\ UNCHANGED loc
       ELSE /\ Call(t, "req", "qc.logs.ret")
            /\ loc' = [loc EXCEPT ![t].task_id = strip(@)]
    /\ UNCHANGED <<mgr, cli, env, scenario, api>>

\* the response of the helper is parsed, formatted and returned
qc_Result(t) ==
    /\ \E l \in {"qc.apps.ret", "qc.tasks.ret", "qc.logs.ret"} :
         At(t, l) /\ Return(t, FnOf(l), "list")
    /\ UNCHANGED <<mgr, cli, env, loc, scenario, api>>

\* except requests.exceptions.HTTPError as e:
\*     401, 403: raise QlikAuthenticationError(..)
\*     404 (get_logs only): return []
\*     else: raise QlikConnectionError(..)
\* except ValueError: raise                                  (get_logs only)
\* except Exception as e: raise QlikConnectionError(f"Onverwachte fout ..")
qc_Except(t) ==
    /\ \E l \in {"qc.apps.except", "qc.tasks.except", "qc.logs.except"} :
         /\ At(t, l)
         /\ CASE ev[t].val \in {"HTTP 401", "HTTP 403"} ->
                   Throw(t, "QlikAuthenticationError")
              [] ev[t].val = "HTTP 404" /\ l = "qc.logs.except" ->
                   Return(t, FnOf(l), "[]")
              [] ev[t].val = "ValueError" /\ l = "qc.logs.except" ->
                   Throw(t, "ValueError")
              [] OTHER -> Throw(t, "QlikConnectionError")
    /\ UNCHANGED <<mgr, cli, env, loc, scenario, api>>

qc_get_apps(t) ==
    /\ EnterWith(t, "QlikClient.get_apps", <<"req", "qc.apps.ret">>,
                 [NoLocals EXCEPT
                    !.after_close = AfterClose(t, "QlikClient.close")])
    /\ UNCHANGED <<mgr, cli, env, scenario, api>>

qc_get_tasks(t) ==
    /\ EnterWith(t, "QlikClient.get_tasks", <<"req", "qc.tasks.ret">>,
                 [NoLocals EXCEPT
                    !.after_close = AfterClose(t, "QlikClient.close")])
    /\ UNCHANGED <<mgr, cli, env, scenario, api>>

qc_get_logs(t) ==
    /\ \E id \in Strings :
         EnterWith(t, "QlikClient.get_logs", <<"qc.logs">>,
                   [NoLocals EXCEPT
                      !.after_close = AfterClose(t, "QlikClient.close"),
                      !.args = <<id>>, !.task_id = id])
    /\ UNCHANGED <<mgr, cli, env, scenario, api>>

\* ------------------------------------------- tool functions of app.py
\* one of the strings the caller passed is empty or all blanks
BlankArgs(t) == \E i \in 1..Len(loc[t].args) : Blank(loc[t].args[i])

list_apps_with_session(t) ==
    /\ \E sid \in Strings :
         EnterWith(t, "list_apps_with_session", <<"tool.apps">>,
                   [NoLocals EXCEPT !.args = <<sid>>])
    /\ UNCHANGED <<mgr, cli, env, scenario, api>>

list_tasks_with_session(t) ==
    /\ \E sid \in Strings :
         EnterWith(t, "list_tasks_with_session", <<"tool.tasks">>,
                   [NoLocals EXCEPT !.args = <<sid>>])
    /\ UNCHANGED <<mgr, cli, env, scenario, api>>

get_task_logs_with_session(t) ==
    /\ \E sid \in Strings, id \in Strings :
         EnterWith(t, "get_task_logs_with_session", <<"tool.logs">>,
                   [NoLocals EXCEPT !.args = <<sid, id>>, !.task_id = id])
    /\ UNCHANGED <<mgr, cli, env, scenario, api>>

\* if not session_id: raise ValueError(..)
\* session_id = session_id.strip(); if not session_id: raise ValueError(..)
\* (and the same for task_id in get_task_logs_with_session)
tool_Validate(t) ==
    /\ \E f \in {"apps", "tasks", "logs"} :
         LET l == CASE f = "apps" -> "tool.apps" [] f = "tasks" -> "tool.tasks"
                    [] f = "logs" -> "tool.logs"
             n == CASE f = "apps" -> "tool.apps.new"
                    [] f = "tasks" -> "tool.tasks.new"
                    [] f = "logs" -> "tool.logs.new"
         IN  /\ At(t, l)
             /\ IF BlankArgs(t) THEN Throw(t, "ValueError") ELSE Goto(t, n)
    /\ UNCHANGED <<mgr, cli, env, loc, scenario, api>>

\* client = QlikClient(session_id=session_id)
\* QlikClient.__init__(self, server_url, username, app_id, timeout,
\* max_retries) has no parameter session_id: the call raises TypeError
tool_Client(t) ==
    /\ \E l \in {"tool.apps.new", "tool.tasks.new", "tool.logs.new"} :
         At(t, l)
    /\ Throw(t, "TypeError")
    /\ loc' = [loc EXCEPT ![t].built = @ + 1]
    /\ UNCHANGED <<mgr, cli, env, scenario, api>>

\* except ValueError as e: raise Exception(f"Parameter validatie fout: ..")
\* except QlikAuthenticationError as e: raise Exception(f"Authenticatie fout: ..")
\* except QlikConnectionError as e: raise Exception(f"Verbinding fout: ..")
\* except Exception as e: raise Exception(f"Fout bij ophalen ..")
ErrorKind(e) ==
    CASE e = "ValueError" -> "Parameter validatie fout"
      [] e = "QlikAuthenticationError" -> "Authenticatie fout"
      [] e = "QlikConnectionError" -> "Verbinding fout"
      [] OTHER -> "Fout bij ophalen"

tool_Except(t) ==
    /\ \E l \in {"tool.apps.except", "tool.tasks.except", "tool.logs.except"} :
         At(t, l)
    /\ Throw(t, "Exception")
    /\ loc' = [loc EXCEPT ![t].msg_cause = ErrorKind(ev[t].val)]
    /\ UNCHANGED <<mgr, cli, env, scenario, api>>

\* ------------------------------------------------------- specifications
Step(t) ==
    \/ start(t) \/ restart(t) \/ cleanup(t) \/ recover_from_error(t)
    \/ exit(t) \/ is_healthy(t) \/ execute_with_retry(t)
    \/ start_IsStarted(t) \/ start_Playwright(t) \/ start_Launch(t)
    \/ start_NewContext(t) \/ start_NewPage(t) \/ start_Timeouts(t)
    \/ start_Except(t)
    \/ restart_Cleanup(t) \/ restart_Start(t)
    \/ cleanup_IfPage(t) \/ cleanup_ClosePage(t)
    \/ cleanup_IfContext(t) \/ cleanup_CloseContext(t)
    \/ cleanup_IfBrowser(t) \/ cleanup_CloseBrowser(t)
    \/ cleanup_IfPlaywright(t) \/ cleanup_ClosePlaywright(t)
    \/ cleanup_Flag(t) \/ cleanup_Except(t)
    \/ recover_HealthCheck(t) \/ recover_NewPage(t) \/ recover_PageHealth(t)
    \/ recover_NewContext(t) \/ recover_ContextPage(t)
    \/ recover_ContextHealth(t) \/ recover_Restart(t)
    \/ ewr_Loop(t) \/ ewr_EnsureStarted(t) \/ ewr_StartResult(t)
    \/ ewr_Health(t) \/ ewr_RecoverResult(t) \/ ewr_Operation(t)
    \/ ewr_Except(t) \/ ewr_Sleep(t)

\* one caller
Next == Step(1) \/ Crash

Spec == Init /\ [][Next]_vars

\* the caller's thread goes on with the method it is in: every statement of
\* the manager is a call with a timeout, a sleep or a local computation
SpecLive == Init /\ [][Next]_vars /\ WF_vars(~Idle(1) /\ Step(1))

\* several callers sharing the manager
NextConc == \E t \in Threads : Step(t)

SpecConc == InitConc /\ [][NextConc]_vars

\* one caller of a BrowserQlikClient
ClientStep(t) ==
    \/ authenticate(t) \/ close(t) \/ client_exit(t)
    \/ auth_IsAuthenticated(t) \/ auth_BrowserStarted(t) \/ auth_Goto(t)
    \/ auth_Cookie(t) \/ auth_LoginForm(t) \/ auth_Input(t) \/ auth_Final(t)
    \/ auth_Except(t)
    \/ sb_Playwright(t) \/ sb_Browser(t) \/ sb_Context(t) \/ sb_Page(t)
    \/ close_Page(t) \/ close_Context(t) \/ close_Browser(t)
    \/ close_Playwright(t) \/ close_Flag(t)

NextClient == ClientStep(1) \/ Crash

SpecClient == Init /\ [][NextClient]_vars

\* the caller's thread goes on with the method of the client it is in,
\* except at input(), which returns only when a line (or end of file) arrives
\* on standard input
SpecClientLive ==
    /\ Init /\ [][NextClient]_vars
    /\ WF_vars(~Idle(1) /\ ~At(1, "auth.input") /\ ClientStep(1))

\* one caller who owns a BrowserManager, which it starts and stops, and a
\* BrowserQlikClient
StartStep(t) ==
    \/ start(t) \/ cleanup(t)
    \/ start_IsStarted(t) \/ start_Playwright(t) \/ start_Launch(t)
    \/ start_NewContext(t) \/ start_NewPage(t) \/ start_Timeouts(t)
    \/ start_Except(t)
    \/ cleanup_IfPage(t) \/ cleanup_ClosePage(t)
    \/ cleanup_IfContext(t) \/ cleanup_CloseContext(t)
    \/ cleanup_IfBrowser(t) \/ cleanup_CloseBrowser(t)
    \/ cleanup_IfPlaywright(t) \/ cleanup_ClosePlaywright(t)
    \/ cleanup_Flag(t) \/ cleanup_Except(t)

NextStartAuth == StartStep(1) \/ ClientStep(1) \/ Crash

SpecStartAuth == Init /\ [][NextStartAuth]_vars

\* one caller starting and stopping a BrowserManager and reading its cookies
NextCookies ==
    StartStep(1) \/ get_cookies(1) \/ get_session_cookie(1) \/ Crash

SpecCookies == Init /\ [][NextCookies]_vars

\* one caller of a BrowserQlikClient
BqStep(t) ==
    \/ get_apps(t) \/ get_tasks(t) \/ get_logs(t)
    \/ api_Guard(t) \/ api_Loop(t) \/ api_Fetch(t) \/ api_Except(t)
    \/ api_Sleep(t) \/ api_Raise(t)
    \/ bq_logs_Validate(t) \/ bq_Result(t) \/ bq_Except(t)

\* one caller of a QlikClient
QcStep(t) ==
    \/ qc_authenticate(t) \/ qc_auth_Request(t) \/ qc_close(t)
    \/ create_qlik_client(t) \/ factory_Return(t)
    \/ qc_get_apps(t) \/ qc_get_tasks(t) \/ qc_get_logs(t)
    \/ req_Guard(t) \/ req_Loop(t) \/ req_Send(t) \/ req_Except(t)
    \/ req_Sleep(t) \/ req_Raise(t)
    \/ qc_logs_Validate(t) \/ qc_Result(t) \/ qc_Except(t)

\* one caller of the tool functions
ToolStep(t) ==
    \/ list_apps_with_session(t) \/ list_tasks_with_session(t)
    \/ get_task_logs_with_session(t)
    \/ tool_Validate(t) \/ tool_Client(t) \/ tool_Except(t)

\* the caller works through the browser, or with requests
NextApi == ClientStep(1) \/ BqStep(1) \/ QcStep(1) \/ ToolStep(1) \/ Crash

SpecApi == InitApi /\ [][NextApi]_vars

\* ---------------------------------------------------------- properties
Handles == {"page", "context", "browser", "playwright"}

Field(h) ==
    CASE h = "page" -> page [] h = "context" -> context
      [] h = "browser" -> browser [] h = "playwright" -> playwright

ClientField(h) ==
    CASE h = "page" -> cl_page [] h = "context" -> cl_context
      [] h = "browser" -> cl_browser [] h = "playwright" -> cl_playwright

\* method fn returned (value v) in the step that led to this state
Returned(t, fn, v) == ev[t].k = "ret" /\ <<fn, v>> \in ev[t].rets

\* method fn let an exception out in the step that led to this state
Raised(t, fn) == ev[t].k = "exc" /\ <<fn, "raise">> \in ev[t].rets

Exited(t, fn) == ev[t].k \in {"ret", "exc"} /\ \E r \in ev[t].rets : r[1] = fn

Uninitialized ==
    ~is_started /\ \A h \in Handles : Field(h) = None

Running ==
    is_started /\ \A h \in Handles : Field(h) # None

\* the caller is past the first statement of a method that reads or writes
\* is_started or the handles
Midway(t) ==
    /\ ~Idle(t)
    /\ FnOf(Head(stack[t])) \in {"start", "cleanup", "restart",
                                 "recover_from_error"}
    /\ Head(stack[t]) \notin {"start", "cleanup", "restart", "recover"}

\* the caller passed start()'s is_started check and launched a browser
Launched(t) ==
    /\ ~Idle(t)
    /\ Head(stack[t]) \in {"start.ctx", "start.page", "start.timeouts"}

\* C1: at most one launched and not yet closed playwright driver and at most
\* one launched and not yet closed browser exist, whatever launch or close
\* step failed.
C1_AtMostOneResource ==
    Cardinality(livePw) <= 1 /\ Cardinality(liveBr) <= 1

\* C2: with concurrent callers of start(), no two callers both pass the
\* is_started check and both launch a browser, and at most one browser is
\* alive.
C2_OneStarterAtATime ==
    /\ \A t, u \in Threads : (Launched(t) /\ Launched(u)) => t = u
    /\ Cardinality(liveBr) <= 1

\* C3: the state-affecting operations exclude each other: no two callers are
\* in the middle of start, cleanup, restart or recover_from_error at once.
C3_MutualExclusion ==
    \A t, u \in Threads : (Midway(t) /\ Midway(u)) => t = u

\* C4: whenever execute_with_retry is about to invoke operation(self.page),
\* is_started is True, page is not None, and in this attempt is_healthy()
\* passed or recover_from_error() returned True.
C4_OperationOnlyWhenReady ==
    \A t \in Threads :
        At(t, "ewr.op") =>
            /\ is_started
            /\ page # None
            /\ loc[t].ready \in {"healthy", "recovered"}

\* C5: when start, restart, recover_from_error, execute_with_retry or cleanup
\* is left (by return or by exception), the manager is either running
\* (is_started and all four handles set) or uninitialized (not is_started and
\* all four handles None).
C5_DefinedStateAtExit ==
    \A t \in Threads :
        (\E fn \in {"start", "restart", "recover_from_error",
                    "execute_with_retry", "cleanup"} : Exited(t, fn))
            => (Running \/ Uninitialized)

\* C6: when restart() returns True the manager is started and is_healthy()
\* would pass (no browser having crashed during the call); when it returns
\* False the manager is not started.
C6_RestartNeverDegraded ==
    \A t \in Threads :
        /\ (Returned(t, "restart", "True") /\ ~loc[t].hit) => IsHealthy
        /\ Returned(t, "restart", "False") => ~is_started

\* C7: when recover_from_error() returns True the manager is started, page is
\* not None and is_healthy() would pass (no browser having crashed during the
\* call).
C7_RecoverTrueMeansReady ==
    \A t \in Threads :
        (Returned(t, "recover_from_error", "True") /\ ~loc[t].hit)
            => (is_started /\ page # None /\ IsHealthy)

\* C8: when cleanup() or close() is left, the close / stop step of every
\* handle that is still set has been attempted.
C8_EveryReleaseAttempted ==
    \A t \in Threads :
        /\ Exited(t, "cleanup") =>
               \A h \in Handles : Field(h) # None => h \in ev[t].tried
        /\ Exited(t, "close") =>
               \A h \in Handles : ClientField(h) # None => h \in ev[t].tried

\* C9: cleanup(), close() and the context-manager exits never let an
\* exception out.
C9_TeardownNeverRaises ==
    \A t \in Threads :
        \A fn \in {"cleanup", "close", "__exit__"} : ~Raised(t, fn)

\* C10: after cleanup() returns the manager is uninitialized: is_started is
\* False and page, context, browser and playwright are None.
C10_UninitializedAfterCleanup ==
    \A t \in Threads : Returned(t, "cleanup", "None") => Uninitialized

\* ------------------------------------------------------ retry executor

\* execute_with_retry gave up: its final raise left the method
GaveUp(t) == Raised(t, "execute_with_retry")

\* the session was healthy when execute_with_retry was called and no browser
\* crashed during the call
HealthyRun(t) == loc[t].healthy0 /\ ~loc[t].hit

\* C11: when the caller's previous call was cleanup(), the operation of the
\* next execute_with_retry is invoked only on a page of a browser launched
\* after that cleanup(), never on a handle that existed before it.
C11_FreshStartAfterStop ==
    \A t \in Threads :
      (At(t, "ewr.op") /\ loc[t].stopped >= 0) => page > loc[t].stopped

\* C12: execute_with_retry never makes more than max_retries + 1 attempts nor
\* more than max_retries + 1 invocations of the operation; when it gives up
\* it has made exactly max_retries + 1 attempts, and on a healthy session
\* (every failure being the operation's) exactly max_retries + 1 invocations.
C12_ExactAttempts ==
    \A t \in Threads :
      /\ loc[t].attempt <= loc[t].max_retries + 1
      /\ loc[t].ops <= loc[t].max_retries + 1
      /\ GaveUp(t) => loc[t].attempt = loc[t].max_retries + 1
      /\ (GaveUp(t) /\ HealthyRun(t)) => loc[t].ops = loc[t].max_retries + 1

C12_Witness ==
    /\ GaveUp(1) /\ HealthyRun(1)
    /\ loc[1].max_retries = MaxRetries
    /\ loc[1].ops = MaxRetries + 1

\* C13: the sleep after the failed attempt i < max_retries lasts 2^i seconds:
\* when attempt number a begins the executor has slept 2^a - 1 seconds in
\* total, and a run that gives up has slept 2^max_retries - 1 seconds, the
\* last attempt being followed by no sleep.
C13_BackoffSchedule ==
    \A t \in Threads :
      loc[t].slept = Pow2(IF loc[t].attempt <= loc[t].max_retries
                          THEN loc[t].attempt ELSE loc[t].max_retries) - 1

C13_Witness ==
    /\ GaveUp(1)
    /\ loc[1].max_retries = MaxRetries
    /\ loc[1].slept = Pow2(MaxRetries) - 1

\* C14 as stated: whenever execute_with_retry returns the operation's value,
\* the number of recover_from_error calls it made equals the number of times
\* the operation failed before.
C14_RecoveriesEqualFailures ==
    \A t \in Threads :
      Returned(t, "execute_with_retry", "result") =>
        loc[t].hrecs + loc[t].xrecs = loc[t].ops - 1

\* C14: on a session that is healthy at the call and stays so, an operation
\* that fails k times and then succeeds makes execute_with_retry return at
\* once with exactly k recover_from_error calls, k sleeps and k + 1 attempts.
C14_RecoveriesOnHealthySession ==
    \A t \in Threads :
      (Returned(t, "execute_with_retry", "result") /\ HealthyRun(t)) =>
        /\ Idle(t)
        /\ ev[t].val = "result"
        /\ loc[t].hrecs + loc[t].xrecs = loc[t].ops - 1
        /\ loc[t].attempt = loc[t].ops - 1
        /\ loc[t].slept = Pow2(loc[t].attempt) - 1

C14_Witness ==
    /\ Returned(1, "execute_with_retry", "result") /\ HealthyRun(1)
    /\ loc[1].ops = 2 /\ loc[1].xrecs = 1 /\ loc[1].max_retries = MaxRetries

\* C15: the exception execute_with_retry raises after its last attempt
\* carries the failure of that last attempt and the number of attempts made,
\* max_retries + 1.
C15_FinalErrorWrapsLast ==
    \A t \in Threads :
      GaveUp(t) =>
        /\ loc[t].msg_cause = loc[t].failure
        /\ loc[t].failed_at = loc[t].max_retries
        /\ loc[t].msg_count = loc[t].max_retries + 1
        /\ loc[t].msg_count = loc[t].attempt

C15_Witness ==
    /\ GaveUp(1)
    /\ loc[1].max_retries = MaxRetries
    /\ loc[1].msg_cause = "valerr" /\ loc[1].msg_count = MaxRetries + 1

\* C16: an attempt after the first begins only after the except block called
\* recover_from_error for each failed attempt before it; the backoff sleep is
\* reached by the return of recover_from_error; the last attempt is followed
\* by neither recovery nor sleep.
C16_RecoveryBeforeRetry ==
    \A t \in Threads :
      /\ At(t, "ewr.started") => loc[t].xrecs >= loc[t].attempt
      /\ At(t, "ewr.sleep") =>
            /\ \E r \in ev[t].rets : r[1] = "recover_from_error"
            /\ loc[t].xrecs = loc[t].attempt + 1
      /\ loc[t].xrecs <= loc[t].max_retries
      /\ GaveUp(t) =>
            /\ loc[t].xrecs = loc[t].max_retries
            /\ loc[t].slept = Pow2(loc[t].max_retries) - 1

C16_Witness ==
    /\ At(1, "ewr.started")
    /\ loc[1].attempt = MaxRetries /\ loc[1].xrecs = MaxRetries
    /\ loc[1].failure = "norecover"

\* ----------------------------------------------------------- no-ops
\* C17: is_healthy() never raises; it returns False without probing when the
\* manager is not started or has no page, returns False (recording the error)
\* when the probe raises, and returns True only when the manager is started,
\* has a page and the probe succeeded.
C17_HealthCheckTotal ==
    \A t \in Threads :
      /\ ~Raised(t, "is_healthy")
      /\ Exited(t, "is_healthy") =>
            \/ Returned(t, "is_healthy", "True")
            \/ Returned(t, "is_healthy", "False")
      /\ Returned(t, "is_healthy", "True") =>
            /\ is_started /\ page # None
            /\ <<"page.evaluate", "ok">> \in ev[t].rets
      /\ (Exited(t, "is_healthy") /\ (~is_started \/ page = None)) =>
            /\ Returned(t, "is_healthy", "False")
            /\ ev[t].rets = {<<"is_healthy", "False">>}
      /\ (Exited(t, "is_healthy") /\ <<"page.evaluate", "raise">> \in ev[t].rets) =>
            /\ Returned(t, "is_healthy", "False")
            /\ last_error

C17_Witness ==
    /\ Returned(1, "is_healthy", "False")
    /\ <<"page.evaluate", "raise">> \in ev[1].rets
    /\ is_started /\ page # None

\* C18: a health check, called from outside or made by execute_with_retry or
\* recover_from_error, leaves is_started, playwright, browser, context and
\* page as they were, whatever it returns.
C18_HealthCheckFrame ==
    [][\A t \in Threads :
         (is_healthy(t) \/ ewr_Health(t) \/ recover_HealthCheck(t)) =>
           UNCHANGED <<is_started, playwright, browser, context, page>>]_vars

C18_Witness ==
    /\ Returned(1, "is_healthy", "False")
    /\ is_started /\ last_error
    /\ page # None /\ context # None /\ browser # None /\ playwright # None

\* C19: recover_from_error() on a manager whose health check passes returns
\* True in that step and leaves is_started, the four handles and every
\* playwright resource as they were.
C19_RecoverNoopWhenHealthy ==
    [][\A t \in Threads :
         (recover_HealthCheck(t) /\ IsHealthy) =>
           /\ UNCHANGED <<is_started, playwright, browser, context, page>>
           /\ UNCHANGED env
           /\ ev'[t].k = "ret"
           /\ <<"recover_from_error", "True">> \in ev'[t].rets]_vars

C19_Witness ==
    /\ Returned(1, "recover_from_error", "True") /\ Idle(1)
    /\ <<"log", "Browser is al gezond, geen herstel nodig">> \in ev[1].rets
    /\ IsHealthy /\ nBr = 1 /\ nPw = 1

\* C20: start() on a started manager, and authenticate() on an authenticated
\* client, returns True in the step of its first check and leaves every field
\* of the object and every playwright resource as it was.
C20_NoopWhenAlreadyStarted ==
    [][\A t \in Threads :
         /\ (start_IsStarted(t) /\ is_started) =>
               /\ UNCHANGED <<mgr, env>>
               /\ ev'[t].k = "ret"
               /\ <<"start", "True">> \in ev'[t].rets
         /\ (auth_IsAuthenticated(t) /\ authenticated) =>
               /\ UNCHANGED <<cli, env>>
               /\ ev'[t].k = "ret"
               /\ <<"authenticate", "True">> \in ev'[t].rets]_vars

C20_Witness ==
    /\ is_started /\ authenticated
    /\ Returned(1, "start", "True") /\ Idle(1)
    /\ <<"log", "Browser is al gestart">> \in ev[1].rets
    /\ playwright = 1 /\ browser = 1 /\ context = 1 /\ page = 1

\* C21: whenever start() returns False, playwright, browser, context and page
\* are null and is_started is False.
C21_FailedStartLeavesNothing ==
    \A t \in Threads : Returned(t, "start", "False") => Uninitialized

\* C24: execute_with_retry never retries a validation error: a ValueError
\* raised by the operation leaves execute_with_retry in that step, with no
\* recovery, no sleep and no further attempt after it.
C24_ValidationErrorNotRetried ==
    \A t \in Threads :
        (ev[t].k = "exc" /\ ev[t].val = "valerr") =>
            Raised(t, "execute_with_retry")

\* C22: an authenticate() whose credentials the remote rejects raises
\* QlikAuthenticationError after exactly 3 attempts (the default max_retries),
\* and afterwards the client is neither running nor authenticated.
C22_RejectedAfterThreeAttempts ==
    \A t \in Threads :
        ( /\ Raised(t, "authenticate") \/ Raised(t, "QlikClient.authenticate")
          /\ ev[t].val = "QlikAuthenticationError"
          /\ max_retries = DefaultMaxRetries ) =>
            /\ loc[t].reqs = DefaultMaxRetries
            /\ ~authenticated /\ session_id = None
            /\ \A h \in Handles : ClientField(h) = None

\* nothing of a call has happened yet: no request, no retry, no sleep, no
\* client constructed
NothingDone(t) ==
    /\ loc[t].reqs = 0 /\ loc[t].outs = {}
    /\ loc[t].attempt = 0 /\ loc[t].slept = 0
    /\ loc[t].built = 0

Tools == {"list_apps_with_session", "list_tasks_with_session",
          "get_task_logs_with_session"}

\* the caller passed an identifier that is empty or consists of blanks only
BlankIdentifier(t) ==
    \E i \in 1..Len(loc[t].args) :
        \A n \in 1..Len(loc[t].args[i]) : loc[t].args[i][n] = " "

\* C23: get_logs of either client, and every tool function, called with an
\* empty or all-blank identifier ends with the validation error (the tool
\* functions report it as "Parameter validatie fout") before any client is
\* constructed and before any request, retry or sleep; and a ValueError is
\* only ever raised at that point.
C23_ValidationFirst ==
    \A t \in Threads :
        /\ \A fn \in {"get_logs", "QlikClient.get_logs"} :
             (Exited(t, fn) /\ BlankIdentifier(t)) =>
                 /\ Raised(t, fn) /\ ev[t].val = "ValueError"
                 /\ NothingDone(t)
        /\ \A fn \in Tools :
             (Exited(t, fn) /\ BlankIdentifier(t)) =>
                 /\ Raised(t, fn) /\ ev[t].val = "Exception"
                 /\ loc[t].msg_cause = "Parameter validatie fout"
                 /\ NothingDone(t)
        /\ (ev[t].k = "exc" /\ ev[t].val = "ValueError") =>
                 BlankIdentifier(t) /\ NothingDone(t)

C23_Witness ==
    /\ Raised(1, "get_logs") /\ ev[1].val = "ValueError"
    /\ loc[1].args = << <<" ", " ">> >>
    /\ authenticated /\ Responds(cl_page) /\ max_retries = DefaultMaxRetries
    /\ NothingDone(1)

\* C25: the error of a tool function tells the cause: "Parameter validatie
\* fout" exactly for blank input, and for a call with well-formed arguments
\* "Authenticatie fout" or "Verbinding fout", never another kind.
C25_ErrorKindTellsCause ==
    \A t \in Threads : \A fn \in Tools :
        Raised(t, fn) =>
            /\ BlankIdentifier(t) <=>
                 loc[t].msg_cause = "Parameter validatie fout"
            /\ ~BlankIdentifier(t) =>
                 loc[t].msg_cause \in {"Authenticatie fout", "Verbinding fout"}

\* C26: get_apps, get_tasks and get_logs of a QlikClient without a session
\* raise QlikAuthenticationError, not QlikConnectionError, and send nothing.
C26_NoSessionIsAuthError ==
    \A t \in Threads :
      \A fn \in {"QlikClient.get_apps", "QlikClient.get_tasks",
                 "QlikClient.get_logs"} :
        (Raised(t, fn) /\ session_id = None /\ ev[t].val # "ValueError") =>
            ev[t].val = "QlikAuthenticationError" /\ loc[t].reqs = 0


\* the seconds slept when the loop of a request helper is at attempt i
Schedule(i) ==
    IF i = 0 THEN 0
    ELSE IF i < max_retries THEN Pow2(i) - 1 ELSE Pow2(max_retries - 1) - 1

\* C27: a request helper whose every attempt fails at transport level makes
\* exactly max_retries attempts, sleeps 2^i seconds after the failed attempt i
\* for i = 0 .. max_retries-2 and not after the last one, and then raises
\* QlikConnectionError with max_retries in its message.
C27_TransportFailureBackoff ==
    \A t \in Threads :
        /\ \A fn \in {"_make_api_request", "_make_authenticated_request"} :
             (Raised(t, fn) /\ loc[t].outs = {"down"}) =>
                 /\ loc[t].reqs = max_retries
                 /\ loc[t].slept = Pow2(max_retries - 1) - 1
                 /\ ev[t].val = "QlikConnectionError"
                 /\ loc[t].msg_count = max_retries
        /\ (At(t, "api.sleep") \/ At(t, "req.sleep")) =>
                 loc[t].attempt <= max_retries - 2
        /\ (At(t, "api.loop") \/ At(t, "req.loop")) =>
                 /\ loc[t].reqs = loc[t].attempt
                 /\ loc[t].slept = Schedule(loc[t].attempt)

C27_Witness ==
    /\ Raised(1, "_make_api_request") /\ ev[1].val = "QlikConnectionError"
    /\ loc[1].outs = {"down"} /\ max_retries = 3
    /\ loc[1].reqs = 3 /\ loc[1].slept = 3 /\ loc[1].msg_count = 3

\* C28: when the remote answers every attempt of a request with HTTP 401 or
\* 403, get_apps, get_tasks and get_logs of both clients raise
\* QlikAuthenticationError, after at most max_retries attempts.
C28_RejectionIsAuthError ==
    \A t \in Threads :
      \A fn \in {"get_apps", "get_tasks", "get_logs", "QlikClient.get_apps",
                 "QlikClient.get_tasks", "QlikClient.get_logs"} :
        ( /\ Raised(t, fn)
          /\ loc[t].outs # {}
          /\ loc[t].outs \subseteq {"HTTP 401", "HTTP 403"} ) =>
            /\ ev[t].val = "QlikAuthenticationError"
            /\ loc[t].reqs <= max_retries

\* C29: a request helper sends a request only on an established session
\* (BrowserQlikClient: authenticated and page non-null; QlikClient: session_id
\* set), and never in a call that directly follows close().
C29_NoRequestWithoutSession ==
    [][\A t \in Threads :
         /\ api_Fetch(t) =>
              authenticated /\ cl_page # None /\ ~loc[t].after_close
         /\ req_Send(t) =>
              session_id # None /\ ~loc[t].after_close]_vars

\* C30: get_session_cookie() returns a value only while the manager is
\* started, and in a call that directly follows cleanup() it returns None and get_cookies() the
\* empty list.
C30_NoCookieWhenStopped ==
    [][\A t \in Threads :
         /\ get_session_cookie(t) =>
              (ev'[t].val = "value" => is_started /\ ~AfterStop(t))
         /\ (get_cookies(t) /\ AfterStop(t)) =>
              ev'[t].val \notin {"[X-Qlik-Session]", "[other]"}]_vars

\* C31: every authenticate() that runs the login sequence runs it on a
\* browser launched in that call (and so on a context and a page of that
\* browser), also when an earlier authenticate() on the same client failed.
C31_LoginOnFreshBrowser ==
    \A t \in Threads :
        At(t, "auth.goto") => cl_browser > loc[t].nbr0

\* C33: whenever authenticate() of either client or create_qlik_client
\* returns normally, a session cookie was extracted and the client is
\* authenticated; without the cookie an error is raised, nothing is returned.
C33_ReturnMeansSession ==
    \A t \in Threads :
        /\ \A v \in {"True", "False"} :
               Returned(t, "QlikClient.authenticate", v) =>
                   v = "True" /\ session_id # None
        /\ Returned(t, "create_qlik_client", "client") => session_id # None
        /\ Returned(t, "authenticate", "True") => authenticated

\* C35: QlikClient.get_logs returns the empty list when the remote answers
\* the execution-results request with HTTP 404.
C35_NotFoundIsEmptyList ==
    \A t \in Threads :
        (Exited(t, "QlikClient.get_logs") /\ loc[t].outs = {"HTTP 404"}) =>
            Returned(t, "QlikClient.get_logs", "[]")

\* C38: on an authenticated client a request helper raises only after at
\* least one request was sent and failed, whatever max_retries is.
C38_FailureAfterAnAttempt ==
    \A t \in Threads :
        /\ (Raised(t, "_make_api_request") /\ authenticated /\ cl_page # None)
               => loc[t].reqs >= 1
        /\ (Raised(t, "_make_authenticated_request") /\ session_id # None)
               => loc[t].reqs >= 1

\* C34: what execute_with_retry passes to the caller's operation is never
\* the page, context, browser or playwright handle of the manager.
C34_NoHandleToOperation ==
    \A t \in Threads : loc[t].given \notin Handles

\* C39: the steps of recover_from_error that replace the page or the
\* context leave browser and playwright as they were and launch or close no
\* browser and no driver; and whenever a health check made inside
\* recover_from_error finds a healthy page, recover_from_error returns True
\* there, so that restart() is reached only when no such check succeeded.
C39_LightweightKeepsOuter ==
    [][\A t \in Threads :
         /\ ( /\ ~Idle(t)
              /\ Head(stack[t]) \in {"recover", "recover.page",
                                     "recover.page.hc", "recover.ctx",
                                     "recover.ctx.page", "recover.ctx.hc"} ) =>
                UNCHANGED <<browser, playwright, livePw, liveBr, nPw, nBr>>
         /\ ( /\ ~Idle(t)
              /\ Head(stack[t]) \in {"recover", "recover.page.hc",
                                     "recover.ctx.hc"}
              /\ stack'[t] # stack[t] /\ ev'[t].k # "exc"
              /\ IsHealthy ) =>
                /\ ev'[t].k = "ret"
                /\ <<"recover_from_error", "True">> \in ev'[t].rets
      ]_vars

\* recover_from_error succeeded by opening a new page on the existing context
C39_Witness ==
    \E t \in Threads :
        /\ Returned(t, "recover_from_error", "True")
        /\ <<"log", "Browser hersteld door nieuwe pagina">> \in ev[t].rets

\* C37: a cleanup() called directly after a cleanup() that ran to its end,
\* and a close() called directly after a close() that did, attempts no close
\* or stop step and changes neither the manager, nor the client, nor the set
\* of live browsers and drivers.
C37_SecondCleanupDoesNothing ==
    [][\A t \in Threads :
         ( /\ ~Idle(t) /\ loc[t].again
           /\ FnOf(Head(stack[t])) \in {"cleanup", "close"} ) =>
             /\ UNCHANGED <<mgr, cli, livePw, liveBr, nPw, nBr>>
             /\ ev'[t].tried = {}
      ]_vars

\* the second cleanup() of a manager that had been started has returned
C37_Witness ==
    \E t \in Threads :
        /\ loc[t].again /\ Returned(t, "cleanup", "None")
        /\ nBr >= 1 /\ Uninitialized

\* the method the caller called from outside, while it runs
Inside(t, fn) == ~Idle(t) /\ FnOf(stack[t][Len(stack[t])]) = fn

\* C32: a running authenticate() always comes to an end, by returning or by
\* raising, whatever the remote does and without any event from outside.
C32_AuthenticateTerminates ==
    \A t \in Threads : Inside(t, "authenticate") ~> Idle(t)

\* C36: execute_with_retry always comes to an end, and it ends in one of two
\* ways only: it returns the result of the operation, or it raises its own
\* final exception, which reports max_retries + 1 attempts; the failure of a
\* start, health check, recovery or cleanup made during the run never leaves
\* execute_with_retry as it is.
C36_ReturnsOrGivesUp ==
    /\ [](\A t \in Threads :
            Exited(t, "execute_with_retry") =>
                \/ /\ Returned(t, "execute_with_retry", "result")
                   /\ ev[t].val = "result"
                \/ /\ Raised(t, "execute_with_retry")
                   /\ ev[t].val = "final"
                   /\ loc[t].msg_count = loc[t].max_retries + 1)
    /\ \A t \in Threads : Inside(t, "execute_with_retry") ~> Idle(t)

\* execute_with_retry gave up after a last attempt that ended in a failed
\* start or a failed recovery
C36_Witness ==
    /\ GaveUp(1) /\ ev[1].val = "final"
    /\ loc[1].failure \in {"nostart", "norecover"}
    /\ loc[1].max_retries = MaxRetries

====
